---- MODULE Spec2Model ----
(***************************************************************************)
(* Roadmap generation service: the domain schema (models/roadmap.py), the  *)
(* two providers' reply parsing and normalization (services/providers),    *)
(* the default update of the provider interface and the orchestration      *)
(* service with its best-effort persistence (services/roadmap_service.py). *)
(*                                                                         *)
(* Python dictionaries are functions over their keys (dict.get is Get),    *)
(* lists are sequences, exceptions are records, a call's outcome is either *)
(* Ok(value) or Raise(exception).  A text is a sequence of tokens: white   *)
(* space, a markdown fence, one JSON document, or bytes that are not JSON. *)
(***************************************************************************)
EXTENDS Integers, Sequences, FiniteSets, TLC

VARIABLES
    provider,          \* RoadmapService.ai_service: which provider class
    factory,           \* the call of the provider factory at start-up
    asyncpg_available, \* ASYNCPG_AVAILABLE of roadmap_service.py
    database_url,      \* RoadmapService._database_url
    db_pool,           \* RoadmapService._db_pool
    pc,                \* position of the request in flight
    op,                \* the service operation in flight
    args,              \* its arguments
    reply,             \* what the remote model answered to this request
    provResult,        \* outcome of the provider call
    provSteps,         \* the steps the provider call went through
    genRequest,        \* the request built for the provider's generate_roadmap
    dbAnswer,          \* what the database did for the read in flight
    received,          \* the request body a route received, and its model
    health,            \* the status object of the health check in flight
    roadmap,           \* the service's local roadmap / updated_roadmap
    calls,             \* collaborator calls made by this request, in order
    written,           \* the roadmap handed to conn.execute by this request
    outcome,           \* what the service operation returned or raised
    tasks,             \* the concurrent requests: each one's operation and position
    pools,             \* how many pools asyncpg.create_pool has returned
    roadmap_service,   \* the global roadmap_service of mcp_server.py
    services           \* how many RoadmapService objects were constructed

vars == <<provider, factory, received, health, asyncpg_available, database_url, db_pool, pc, op, args,
          reply, provResult, provSteps, genRequest, dbAnswer, roadmap, calls,
          written, outcome, tasks, pools, roadmap_service, services>>

-----------------------------------------------------------------------------
(* Bounds of the model *)

\* how many requests are in flight at once
MaxTasks == 2

\* longest modules list a reply carries (one more than the schema accepts)
MaxModules == 7

\* sets of skills up to this size are taken in every order
MaxPermuted == 3

-----------------------------------------------------------------------------
(* Python values *)

\* None where an object may stand
NoneV == [none |-> TRUE]

\* None where a timestamp may stand
NoTime == "None"

EmptyDict == [k \in {} |-> 0]

Get(d, k, default) == IF k \in DOMAIN d THEN d[k] ELSE default

Ok(v) == [status |-> "ok", value |-> v]

Raise(e) == [status |-> "raised", exc |-> e]

NoResult == [status |-> "none"]

IsOk(r) == r.status = "ok"

IsRaised(r) == r.status = "raised"

NoCause == [type |-> "none", error_code |-> "none"]

\* what an exception shows of the exception it wraps
Brief(e) == [type |-> e.type, error_code |-> e.error_code]

PyExc(t) ==
    [type |-> t, error_code |-> "none", provider |-> "none",
     original_error |-> NoCause]

Min(a, b) == IF a < b THEN a ELSE b

Max(a, b) == IF a > b THEN a ELSE b

Abs(a) == IF a < 0 THEN 0 - a ELSE a

Take(s, n) == SubSeq(s, 1, Min(n, Len(s)))

RECURSIVE SumSeq(_)
SumSeq(s) == IF s = <<>> THEN 0 ELSE Head(s) + SumSeq(Tail(s))

\* the least index of s satisfying Bad, 0 when there is none
FirstIndex(s, Bad(_)) ==
    IF \E i \in 1..Len(s) : Bad(s[i])
    THEN CHOOSE i \in 1..Len(s) :
             Bad(s[i]) /\ \A j \in 1..(i - 1) : ~Bad(s[j])
    ELSE 0

-----------------------------------------------------------------------------
(* services/ai_service_interface.py: AIServiceError *)

AIServiceError(prov, code, cause) ==
    [type |-> "AIServiceError", error_code |-> code, provider |-> prov,
     original_error |-> cause]

-----------------------------------------------------------------------------
(* models/roadmap.py *)

ResourceType ==
    {"video", "article", "documentation", "course", "tutorial", "book",
     "practice"}

DifficultyLevel == {"beginner", "intermediate", "advanced"}

\* Roadmap's fields in declaration order: pydantic validates them in this
\* order and hands a validator the fields validated before its own
RoadmapFields ==
    <<"id", "user_id", "title", "career_goal", "estimated_weeks",
      "difficulty_progression", "modules", "current_module",
      "progress_percentage", "created_at", "updated_at">>

FieldIndex(f) == CHOOSE i \in 1..Len(RoadmapFields) : RoadmapFields[i] = f

\* the `values` a validator of field f receives
ValuesBefore(f) == {RoadmapFields[i] : i \in 1..(FieldIndex(f) - 1)}

\* LearningResource(...): type is a ResourceType, difficulty a DifficultyLevel
LearningResource(title, type, difficulty) ==
    IF type \in ResourceType /\ difficulty \in DifficultyLevel
    THEN Ok([title |-> title, type |-> type, difficulty |-> difficulty])
    ELSE Raise(PyExc("ValidationError"))

\* Project(...): deliverables is a list of strings, estimated_hours >= 1
Project(title, deliverables, estimated_hours) ==
    IF deliverables.isList /\ estimated_hours >= 1
    THEN Ok([title |-> title, deliverables |-> deliverables.items,
             estimated_hours |-> estimated_hours])
    ELSE Raise(PyExc("ValidationError"))

\* validate_resources accepting a single resource
validate_resources_one(v) == Len(v) >= 1

\* validate_resources asking for three resources
validate_resources_three(v) == Len(v) >= 3

validate_resources(v) == Len(v) >= 2

RoadmapModule(id, estimated_hours, skills_taught, project, resources, assessment) ==
    IF estimated_hours >= 1 /\ validate_resources(resources)
    THEN Ok([id |-> id, estimated_hours |-> estimated_hours,
             skills_taught |-> skills_taught, project |-> project,
             resources |-> resources, assessment |-> assessment])
    ELSE Raise(PyExc("ValidationError"))

\* validate_modules with a lower bound only
validate_modules_at_least(v) == Len(v) >= 6

validate_modules(v) == Len(v) = 6

calculated_weeks(modules) ==
    Max(1, (SumSeq([i \in 1..Len(modules) |-> modules[i].estimated_hours])
            + 9) \div 10)

\* `values` are the names of the fields validated before estimated_weeks
validate_estimated_weeks(v, values, modules) ==
    IF "modules" \in values
    THEN ~(Abs(v - calculated_weeks(modules)) > 4)
    ELSE TRUE

Roadmap(id, user_id, career_goal, estimated_weeks, difficulty_progression, modules, updated_at) ==
    IF /\ estimated_weeks >= 1
       /\ estimated_weeks <= 104
       /\ validate_estimated_weeks(estimated_weeks,
                                   ValuesBefore("estimated_weeks"), modules)
       /\ validate_modules(modules)
    THEN Ok([id |-> id, user_id |-> user_id,
             title |-> <<career_goal, " Learning Path">>,
             career_goal |-> career_goal,
             estimated_weeks |-> estimated_weeks,
             difficulty_progression |-> difficulty_progression,
             modules |-> modules, current_module |-> 0,
             progress_percentage |-> 0, created_at |-> "utcnow",
             updated_at |-> updated_at])
    ELSE Raise(PyExc("ValidationError"))

-----------------------------------------------------------------------------
(* Strings and texts *)

\* a string with its letters s, whether it has upper-case letters and
\* whether white space surrounds it
Str(s, cased, pad) == [s |-> s, cased |-> cased, pad |-> pad]

Plain(s) == Str(s, FALSE, FALSE)

\* str.lower()
Lower(x) == [x EXCEPT !.cased = FALSE]

\* str.strip() of a string value
Strip(x) == [x EXCEPT !.pad = FALSE]

WS == [t |-> "ws"]

\* the opening fence of a json code block
FenceJson == [t |-> "fence_json"]

\* a bare code fence
Fence == [t |-> "fence"]

Garbage == [t |-> "garbage"]

JsonDoc(d) == [t |-> "json", data |-> d]

RECURSIVE lstrip(_)
lstrip(text) ==
    IF text # <<>> /\ Head(text) = WS THEN lstrip(Tail(text)) ELSE text

RECURSIVE rstrip(_)
rstrip(text) ==
    IF text # <<>> /\ text[Len(text)] = WS
    THEN rstrip(SubSeq(text, 1, Len(text) - 1))
    ELSE text

strip(text) == rstrip(lstrip(text))

startswith(text, tok) == text # <<>> /\ Head(text) = tok

endswith(text, tok) == text # <<>> /\ text[Len(text)] = tok

\* the document of a text stripped of its surrounding white space
json_document(t) ==
    IF Len(t) = 1 /\ t[1].t = "json"
    THEN Ok(t[1].data)
    ELSE Raise(PyExc("JSONDecodeError"))

\* json.loads: one JSON document, white space around it allowed
json_loads(text) == json_document(strip(text))

\* a loop that builds a list: the first failing iteration raises
Collect(results) ==
    IF \E k \in 1..Len(results) : ~IsOk(results[k])
    THEN results[CHOOSE k \in 1..Len(results) :
                    /\ ~IsOk(results[k])
                    /\ \A j \in 1..(k - 1) : IsOk(results[j])]
    ELSE Ok([k \in 1..Len(results) |-> results[k].value])

\* a call's outcome together with the steps it went through
Ran(res, steps) == [res |-> res, steps |-> steps]

-----------------------------------------------------------------------------
(* services/ai_service_interface.py: validate_request *)

\* validate_request without the check of the skills list
validate_request_any_skills(request) ==
    IF request.user_goal.s = "" /\ ~request.user_goal.pad
    THEN Raise(PyExc("ValueError"))
    ELSE IF \E i \in 1..Len(request.user_skills) :
               request.user_skills[i].score < 1 \/ request.user_skills[i].score > 10
    THEN Raise(PyExc("ValueError"))
    ELSE Ok(TRUE)

validate_request(request) ==
    IF request.user_goal.s = "" /\ ~request.user_goal.pad
    THEN Raise(PyExc("ValueError"))
    ELSE IF Len(request.user_skills) = 0
    THEN Raise(PyExc("ValueError"))
    ELSE IF \E i \in 1..Len(request.user_skills) :
               request.user_skills[i].score < 1 \/ request.user_skills[i].score > 10
    THEN Raise(PyExc("ValueError"))
    ELSE Ok(TRUE)

-----------------------------------------------------------------------------
(* services/providers/google_provider.py *)

\* the keys of type_mapping
TypeMappingKeys ==
    {"video", "article", "documentation", "course", "tutorial", "book",
     "practice", "doc", "docs", "tut", "tutorials", "articles", "videos",
     "courses", "books", "practices", "blog", "blog post", "youtube",
     "interactive", "game", "interactive game", "project", "exercise"}

type_mapping(k) ==
    CASE k \in {"video", "videos", "youtube"} -> "video"
      [] k \in {"article", "articles", "blog", "blog post"} -> "article"
      [] k \in {"documentation", "doc", "docs"} -> "documentation"
      [] k \in {"course", "courses"} -> "course"
      [] k \in {"tutorial", "tut", "tutorials", "interactive", "game",
                "interactive game"} -> "tutorial"
      [] k \in {"book", "books"} -> "book"
      [] k \in {"practice", "practices", "project", "exercise"} -> "practice"

\* ResourceType(value): the enum member with that exact value
ResourceTypeOf(x) ==
    IF ~x.cased /\ ~x.pad /\ x.s \in ResourceType
    THEN Ok(x.s)
    ELSE Raise(PyExc("ValueError"))

\* the lookups of _normalize_resource_type on the lowered, stripped text
normalize_lookup(rt) ==
    IF rt.s \in TypeMappingKeys
    THEN type_mapping(rt.s)
    ELSE IF IsOk(ResourceTypeOf(rt))
    THEN ResourceTypeOf(rt).value
    ELSE "tutorial"

Google_normalize_resource_type(resource_type) ==
    normalize_lookup(Strip(Lower(resource_type)))

ListOf(items) == [isList |-> TRUE, items |-> items]

StrValue(x) == [isList |-> FALSE, str |-> x]

\* one iteration of the loop over module_data["resources"]
Google_resource(k, res_data) ==
    IF Get(res_data, "difficulty", "beginner") \notin DifficultyLevel
    THEN Raise(PyExc("ValueError"))
    ELSE LearningResource(
             Get(res_data, "title", Plain("Resource " \o ToString(k))),
             Google_normalize_resource_type(
                 Get(res_data, "type", Plain("article"))),
             Get(res_data, "difficulty", "beginner"))

Google_resource_list(rs) ==
    Collect([k \in 1..Len(rs) |-> Google_resource(k, rs[k])])

\* the loop over module_data["resources"]
Google_resources(module_data) ==
    Google_resource_list(Get(module_data, "resources", <<>>))

\* isinstance(deliverables, str): wrap the string in a list
Google_deliverables(d) == IF ~d.isList THEN ListOf(<<d.str>>) ELSE d

\* one iteration of the loop over module_data["projects"]
Google_one_project(i, proj_data) ==
    Project(Get(proj_data, "title", Str("Project " \o ToString(i), TRUE, FALSE)),
            Google_deliverables(
                Get(proj_data, "deliverables",
                    ListOf(<<Plain("Project completion")>>))),
            Get(proj_data, "estimated_hours", 10))

Google_project_list(i, ps) ==
    Collect([k \in 1..Len(ps) |-> Google_one_project(i, ps[k])])

\* projects[0] if projects else None
first_project(projects) ==
    IF ~IsOk(projects) THEN projects
    ELSE IF Len(projects.value) > 0 THEN Ok(projects.value[1])
    ELSE Ok(NoneV)

\* the loop over module_data["projects"], then the first project
Google_project(i, module_data) ==
    first_project(Google_project_list(i, Get(module_data, "projects", <<>>)))

NoAssessment == [kind |-> "literal", text |-> ""]

Literal(text) == [kind |-> "literal", text |-> text]

\* the assessment of a module, synthesized when missing or generic
synthesize_assessment(assessment, skills, project) ==
    IF assessment = NoAssessment
       \/ assessment = Literal("Complete module exercises")
    THEN IF project # NoneV
         THEN [kind |-> "complete_project",
               title |-> Lower(project.title), skills |-> skills]
         ELSE [kind |-> "demonstrate_skills", skills |-> skills]
    ELSE assessment

Google_assessment(module_data, project) ==
    synthesize_assessment(Get(module_data, "assessment", NoAssessment),
                          Take(Get(module_data, "skills_taught", <<>>), 2),
                          project)

\* RoadmapModule(...) of one iteration of the loop over data["modules"]
Google_build_module(i, module_data, resources, project) ==
    IF ~IsOk(resources) THEN resources
    ELSE IF ~IsOk(project) THEN project
    ELSE RoadmapModule(
             Get(module_data, "id", "module-" \o ToString(i)),
             Get(module_data, "estimated_hours", 30),
             Get(module_data, "skills_taught", <<>>),
             project.value,
             resources.value,
             Google_assessment(module_data, project.value))

\* one iteration of the loop over data["modules"]
Google_module(i, module_data) ==
    Google_build_module(i, module_data, Google_resources(module_data),
                        Google_project(i, module_data))

\* the loop over data["modules"]
Google_modules(ms) ==
    Collect([i \in 1..Len(ms) |-> Google_module(i, ms[i])])

\* Roadmap(...) at the end of _create_roadmap_from_response
Google_build_roadmap(data, request, user_id, roadmap_id, modules) ==
    IF ~IsOk(modules) THEN modules
    ELSE Roadmap(roadmap_id, user_id, request.user_goal,
                 Get(data, "estimated_weeks", 16),
                 Get(data, "difficulty_progression",
                     "beginner -> intermediate -> advanced"),
                 modules.value,
                 "utcnow")

Google_create_roadmap_from_response(data, request, user_id, roadmap_id) ==
    Google_build_roadmap(data, request, user_id, roadmap_id,
                         Google_modules(Get(data, "modules", <<>>)))

\* finish_reason values of a candidate
FINISH_STOP == 1

FINISH_MAX_TOKENS == 2

FINISH_SAFETY == 3

FINISH_OTHER == 5

\* removal of the trailing fence
clean_trailing(c) ==
    IF endswith(rstrip(c), Fence)
    THEN rstrip(SubSeq(rstrip(c), 1, Len(rstrip(c)) - 1))
    ELSE c

\* removal of the leading fence
clean_leading(c) ==
    IF startswith(c, FenceJson) THEN Tail(c)
    ELSE IF startswith(c, Fence) THEN Tail(c)
    ELSE c

\* the markdown fence cleanup of generate_roadmap
Google_clean(content) == clean_trailing(clean_leading(strip(content)))

\* `if content`: there is a text and it is not empty
has_text(r) == r.has_content /\ r.text # <<>>

\* generate_roadmap from json.loads on
Google_parsed(parsed, request, user_id, r, roadmap_id) ==
    IF ~IsOk(parsed)
    THEN Ran(Raise(AIServiceError(
                 "google",
                 IF r.finish_reason = FINISH_MAX_TOKENS
                 THEN "TRUNCATED_RESPONSE" ELSE "PARSE_ERROR",
                 Brief(parsed.exc))),
             <<"validate_request", "model_call", "json_loads">>)
    ELSE Ran(Google_create_roadmap_from_response(
                 parsed.value, request, user_id, roadmap_id),
             <<"validate_request", "model_call", "json_loads",
               "create_roadmap">>)

\* the finish reason dispatch raising on MAX_TOKENS whatever the content
Google_called_strict(request, user_id, r, roadmap_id) ==
    IF r.raises
    THEN Ran(Raise(PyExc("APIError")), <<"validate_request", "model_call">>)
    ELSE IF ~r.has_candidate
    THEN Ran(Raise(AIServiceError("google", "SAFETY_FILTER", NoCause)),
             <<"validate_request", "model_call">>)
    ELSE IF r.finish_reason = FINISH_SAFETY
    THEN Ran(Raise(AIServiceError("google", "SAFETY_BLOCKED", NoCause)),
             <<"validate_request", "model_call">>)
    ELSE IF r.finish_reason = FINISH_MAX_TOKENS
    THEN Ran(Raise(AIServiceError("google", "MAX_TOKENS_EXCEEDED", NoCause)),
             <<"validate_request", "model_call">>)
    ELSE IF ~has_text(r)
    THEN Ran(Raise(AIServiceError("google", "NO_CONTENT", NoCause)),
             <<"validate_request", "model_call">>)
    ELSE Google_parsed(json_loads(Google_clean(r.text)), request, user_id,
                       r, roadmap_id)

\* generate_roadmap from the model call to the finish reason dispatch
Google_called(request, user_id, r, roadmap_id) ==
    IF r.raises
    THEN Ran(Raise(PyExc("APIError")), <<"validate_request", "model_call">>)
    ELSE IF ~r.has_candidate
    THEN Ran(Raise(AIServiceError("google", "SAFETY_FILTER", NoCause)),
             <<"validate_request", "model_call">>)
    ELSE IF r.finish_reason = FINISH_SAFETY
    THEN Ran(Raise(AIServiceError("google", "SAFETY_BLOCKED", NoCause)),
             <<"validate_request", "model_call">>)
    ELSE IF r.finish_reason = FINISH_MAX_TOKENS /\ ~has_text(r)
    THEN Ran(Raise(AIServiceError("google", "MAX_TOKENS_EXCEEDED", NoCause)),
             <<"validate_request", "model_call">>)
    ELSE IF r.finish_reason # FINISH_MAX_TOKENS /\ ~has_text(r)
    THEN Ran(Raise(AIServiceError("google", "NO_CONTENT", NoCause)),
             <<"validate_request", "model_call">>)
    ELSE Google_parsed(json_loads(Google_clean(r.text)), request, user_id,
                       r, roadmap_id)

\* generate_roadmap after validate_request
Google_validated(valid, request, user_id, r, roadmap_id) ==
    IF ~IsOk(valid)
    THEN Ran(valid, <<"validate_request">>)
    ELSE Google_called(request, user_id, r, roadmap_id)

\* the try block of generate_roadmap; r is the backend's answer
Google_generate_body(request, user_id, r, roadmap_id) ==
    Google_validated(validate_request(request), request, user_id, r,
                     roadmap_id)

\* the except clauses of generate_roadmap: json.JSONDecodeError first, then
\* Exception, which AIServiceError derives from
Google_generate_except(e) ==
    IF e.type = "JSONDecodeError"
    THEN AIServiceError("google", "PARSE_ERROR", Brief(e))
    ELSE AIServiceError("google", "GENERATION_ERROR", Brief(e))

Google_handled(b) ==
    IF IsOk(b.res) THEN b
    ELSE Ran(Raise(Google_generate_except(b.res.exc)), b.steps)

Google_generate_roadmap(request, user_id, r, roadmap_id) ==
    Google_handled(Google_generate_body(request, user_id, r, roadmap_id))

-----------------------------------------------------------------------------
(* services/providers/openai_provider.py *)

\* LearningResource(...) with the type ResourceType(...) gave
OpenAI_typed_resource(k, res_data, type) ==
    IF ~IsOk(type) THEN type
    ELSE IF Get(res_data, "difficulty", "beginner") \notin DifficultyLevel
    THEN Raise(PyExc("ValueError"))
    ELSE LearningResource(
             Get(res_data, "title", Plain("Resource " \o ToString(k))),
             type.value,
             Get(res_data, "difficulty", "beginner"))

\* one iteration of the loop over module_data["resources"]
OpenAI_resource(k, res_data) ==
    OpenAI_typed_resource(
        k, res_data, ResourceTypeOf(Get(res_data, "type", Plain("article"))))

OpenAI_resource_list(rs) ==
    Collect([k \in 1..Len(rs) |-> OpenAI_resource(k, rs[k])])

OpenAI_resources(module_data) ==
    OpenAI_resource_list(Get(module_data, "resources", <<>>))

\* Project(...) from module_data["project"]
OpenAI_one_project(i, proj_data) ==
    Project(Get(proj_data, "title", Str("Project " \o ToString(i), TRUE, FALSE)),
            Get(proj_data, "deliverables",
                ListOf(<<Plain("Project completion")>>)),
            Get(proj_data, "estimated_hours", 10))

OpenAI_project(i, module_data) ==
    IF "project" \in DOMAIN module_data
    THEN OpenAI_one_project(i, module_data["project"])
    ELSE Ok(NoneV)

OpenAI_build_module(i, module_data, resources, project) ==
    IF ~IsOk(resources) THEN resources
    ELSE IF ~IsOk(project) THEN project
    ELSE RoadmapModule(
             Get(module_data, "id", "module-" \o ToString(i)),
             Get(module_data, "estimated_hours", 30),
             Get(module_data, "skills_taught", <<>>),
             project.value,
             resources.value,
             Get(module_data, "assessment",
                 Literal("Complete module exercises")))

\* one iteration of the loop over data["modules"]
OpenAI_module(i, module_data) ==
    OpenAI_build_module(i, module_data, OpenAI_resources(module_data),
                        OpenAI_project(i, module_data))

OpenAI_modules(ms) ==
    Collect([i \in 1..Len(ms) |-> OpenAI_module(i, ms[i])])

\* Roadmap(...) at the end of _create_roadmap_from_response
OpenAI_build_roadmap(data, request, user_id, roadmap_id, modules) ==
    IF ~IsOk(modules) THEN modules
    ELSE Roadmap(roadmap_id, user_id, request.user_goal,
                 Get(data, "estimated_weeks", 16),
                 Get(data, "difficulty_progression",
                     "beginner -> intermediate -> advanced"),
                 modules.value,
                 NoTime)

OpenAI_create_roadmap_from_response(data, request, user_id, roadmap_id) ==
    OpenAI_build_roadmap(data, request, user_id, roadmap_id,
                         OpenAI_modules(Get(data, "modules", <<>>)))

\* generate_roadmap from json.loads on
OpenAI_parsed(parsed, request, user_id, roadmap_id) ==
    IF ~IsOk(parsed)
    THEN Ran(parsed, <<"validate_request", "model_call", "json_loads">>)
    ELSE Ran(OpenAI_create_roadmap_from_response(
                 parsed.value, request, user_id, roadmap_id),
             <<"validate_request", "model_call", "json_loads",
               "create_roadmap">>)

\* generate_roadmap from the model call on
OpenAI_called(request, user_id, r, roadmap_id) ==
    IF r.raises
    THEN Ran(Raise(PyExc("APIError")), <<"validate_request", "model_call">>)
    ELSE IF ~r.has_candidate
    THEN Ran(Raise(PyExc("IndexError")), <<"validate_request", "model_call">>)
    ELSE IF ~r.has_content
    THEN Ran(Raise(PyExc("TypeError")),
             <<"validate_request", "model_call", "json_loads">>)
    ELSE OpenAI_parsed(json_loads(r.text), request, user_id, roadmap_id)

OpenAI_validated(valid, request, user_id, r, roadmap_id) ==
    IF ~IsOk(valid)
    THEN Ran(valid, <<"validate_request">>)
    ELSE OpenAI_called(request, user_id, r, roadmap_id)

\* the try block of generate_roadmap; r is the backend's answer
OpenAI_generate_body(request, user_id, r, roadmap_id) ==
    OpenAI_validated(validate_request(request), request, user_id, r,
                     roadmap_id)

OpenAI_generate_except(e) ==
    IF e.type = "JSONDecodeError"
    THEN AIServiceError("openai", "PARSE_ERROR", Brief(e))
    ELSE AIServiceError("openai", "GENERATION_ERROR", Brief(e))

OpenAI_handled(b) ==
    IF IsOk(b.res) THEN b
    ELSE Ran(Raise(OpenAI_generate_except(b.res.exc)), b.steps)

OpenAI_generate_roadmap(request, user_id, r, roadmap_id) ==
    OpenAI_handled(OpenAI_generate_body(request, user_id, r, roadmap_id))

\* AIServiceInterface.generate_roadmap, dispatched on the provider class
generate_roadmap(prov, request, user_id, r, roadmap_id) ==
    IF prov = "google"
    THEN Google_generate_roadmap(request, user_id, r, roadmap_id)
    ELSE OpenAI_generate_roadmap(request, user_id, r, roadmap_id)

\* the resource type each provider gives a reply's type text: Google through
\* _normalize_resource_type and the try around it, OpenAI through the enum
resource_type(prov, x) ==
    IF prov = "google"
    THEN Ok(Google_normalize_resource_type(x))
    ELSE ResourceTypeOf(x)

-----------------------------------------------------------------------------
(* models/roadmap.py: the request models *)

\* RoadmapRequest(...) with validate_user_goal
RoadmapRequest(user_goal, user_skills, experience_level, preferences) ==
    IF user_goal.s = ""
    THEN Raise(PyExc("ValidationError"))
    ELSE Ok([user_goal |-> Strip(user_goal), user_skills |-> user_skills,
             experience_level |-> experience_level,
             preferences |-> preferences])

SkillAssessment(skill, score, level) ==
    [skill |-> skill, score |-> score, level |-> level]

-----------------------------------------------------------------------------
(* services/ai_service_interface.py: the default update_roadmap *)

\* unique_skills[:10]
UpdateSkillLimit == 10

\* the skills_taught of all modules, as a set
all_skills(existing_roadmap) ==
    UNION {{existing_roadmap.modules[i].skills_taught[k] :
               k \in 1..Len(existing_roadmap.modules[i].skills_taught)} :
           i \in 1..Len(existing_roadmap.modules)}

\* module.skills_taught of modules i.. appended to acc (all_skills.extend)
RECURSIVE extend_skills(_, _, _)
extend_skills(acc, modules, i) ==
    IF i > Len(modules) THEN acc
    ELSE extend_skills(acc \o modules[i].skills_taught, modules, i + 1)

\* the distinct elements of s in the order of their first occurrence
RECURSIVE distinct_into(_, _)
distinct_into(acc, s) ==
    IF s = <<>> THEN acc
    ELSE distinct_into(IF \E k \in 1..Len(acc) : acc[k] = Head(s)
                       THEN acc ELSE Append(acc, Head(s)),
                       Tail(s))

\* the distinct skills of the existing roadmap, in one order
skills_in_order(existing_roadmap) ==
    distinct_into(<<>>, extend_skills(<<>>, existing_roadmap.modules, 1))

Reverse(s) == [k \in 1..Len(s) |-> s[Len(s) + 1 - k]]

\* list(set(all_skills)): the set in any order; every order of a set of at
\* most MaxPermuted skills, two opposite orders of a larger one
Orderings(s) ==
    IF Len(s) <= MaxPermuted
    THEN {[k \in 1..Len(s) |-> s[p[k]]] :
             p \in {f \in [1..Len(s) -> 1..Len(s)] :
                       \A i, j \in 1..Len(s) : i # j => f[i] # f[j]}}
    ELSE {s, Reverse(s)}

\* the SkillAssessment list built from the limited skills
skill_assessments(limited) ==
    [k \in 1..Len(limited) |-> SkillAssessment(limited[k], 5, "intermediate")]

\* user_skills of the new request
update_user_skills(assessments) ==
    IF Len(assessments) > 0
    THEN assessments
    ELSE <<SkillAssessment("general", 5, "beginner")>>

\* the request update_roadmap builds; unique_skills is one ordering of the set
update_new_request(existing_roadmap, user_prompt, unique_skills) ==
    RoadmapRequest(
        existing_roadmap.career_goal,
        update_user_skills(
            skill_assessments(Take(unique_skills, UpdateSkillLimit))),
        "beginner",
        [modifications |-> user_prompt,
         existing_roadmap |-> existing_roadmap])

\* return await self.generate_roadmap(new_request, user_id)
update_generate(prov, new_request, user_id, r, roadmap_id) ==
    IF ~IsOk(new_request)
    THEN Ran(new_request, <<>>)
    ELSE generate_roadmap(prov, new_request.value, user_id, r, roadmap_id)

\* update_roadmap: builds the request, then generate_roadmap
update_roadmap(prov, existing_roadmap, user_prompt, user_id, unique_skills, r, roadmap_id) ==
    update_generate(prov,
                    update_new_request(existing_roadmap, user_prompt,
                                       unique_skills),
                    user_id, r, roadmap_id)

\* AIServiceInterface.__init__: provider_name
get_provider_name(prov) ==
    IF prov = "google" THEN "googleprovider" ELSE "openaiprovider"

\* get_model_info()["provider"]
model_info_provider(prov) == prov

-----------------------------------------------------------------------------
(* _build_roadmap_prompt of the providers *)

\* [:5] of the sorted skills
TopSkillsLimit == 5

\* x put behind the entries of s whose score is not lower (sorted is stable)
RECURSIVE insert_by_score(_, _)
insert_by_score(x, s) ==
    IF s = <<>> THEN <<x>>
    ELSE IF Head(s).score >= x.score
    THEN <<Head(s)>> \o insert_by_score(x, Tail(s))
    ELSE <<x>> \o s

\* sorted(user_skills, key=lambda x: x.score, reverse=True), from entry i on
RECURSIVE sorted_by_score(_, _, _)
sorted_by_score(acc, user_skills, i) ==
    IF i > Len(user_skills) THEN acc
    ELSE sorted_by_score(insert_by_score(user_skills[i], acc), user_skills,
                         i + 1)

\* top_skills of GoogleProvider._build_roadmap_prompt
top_skills(user_skills) ==
    Take(sorted_by_score(<<>>, user_skills, 1), TopSkillsLimit)

\* the lines "- {skill}: {score}/10" of Google's skills_summary
Google_skills_summary(user_skills) ==
    [k \in 1..Len(top_skills(user_skills)) |->
        [skill |-> top_skills(user_skills)[k].skill,
         score |-> top_skills(user_skills)[k].score]]

\* the text GoogleProvider._build_roadmap_prompt returns, by the values its
\* f-string takes from the request: skills_summary and skill_analysis are
\* computed and not used in it
Google_build_roadmap_prompt(request) ==
    [user_goal |-> request.user_goal,
     experience_level |-> request.experience_level]

\* the lines "- {skill}: {score}/10 ({level})" of OpenAI's skills_summary
OpenAI_skills_summary(user_skills) ==
    [k \in 1..Len(user_skills) |->
        [skill |-> user_skills[k].skill, score |-> user_skills[k].score,
         level |-> user_skills[k].level]]

\* role_requirements.get(target_role, []): the rows of the goals in use
role_requirements(target_role) ==
    IF target_role = Str("Full Stack Developer", TRUE, FALSE)
    THEN <<"javascript", "react", "nodejs", "databases", "api-design",
           "deployment", "git">>
    ELSE IF target_role = Str("Data Scientist", TRUE, FALSE)
    THEN <<"python", "statistics", "machine-learning", "data-visualization",
           "sql", "pandas", "numpy">>
    ELSE <<>>

\* [x for x in s if keep(x)], as the entries of s whose index is in keep
RECURSIVE filtered(_, _, _)
filtered(s, keep, i) ==
    IF i > Len(s) THEN <<>>
    ELSE (IF i \in keep THEN <<s[i]>> ELSE <<>>) \o filtered(s, keep, i + 1)

\* OpenAIProvider._analyze_skill_gaps
OpenAI_analyze_skill_gaps(target_role, current_skills) ==
    [missing |->
        Take(filtered(role_requirements(target_role),
                      {i \in 1..Len(role_requirements(target_role)) :
                          \A k \in 1..Len(current_skills) :
                              current_skills[k].skill
                                 # role_requirements(target_role)[i]},
                      1), 5),
     strengths |->
        Take(filtered([k \in 1..Len(current_skills) |-> current_skills[k].skill],
                      {k \in 1..Len(current_skills) :
                          current_skills[k].score >= 7},
                      1), 3)]

\* request.preferences or 'Not specified'
preferences_text(preferences) ==
    IF preferences = NoneV THEN "Not specified" ELSE preferences

\* the text OpenAIProvider._build_roadmap_prompt returns, by the values its
\* f-string takes from the request
OpenAI_build_roadmap_prompt(request) ==
    [user_goal |-> request.user_goal,
     experience_level |-> request.experience_level,
     skills_summary |-> OpenAI_skills_summary(request.user_skills),
     skill_analysis |-> OpenAI_analyze_skill_gaps(request.user_goal,
                                                  request.user_skills),
     preferences |-> preferences_text(request.preferences)]

build_roadmap_prompt(prov, request) ==
    IF prov = "google" THEN Google_build_roadmap_prompt(request)
    ELSE OpenAI_build_roadmap_prompt(request)

-----------------------------------------------------------------------------
(* What the environment supplies: replies of the remote model, requests *)

Res(type) == [type |-> type]

\* module entries of a reply; a missing key takes the normalization default
BaseEntries ==
    {[resources |-> <<EmptyDict, EmptyDict>>],
     [resources |-> <<Res(Plain("documentation")), Res(Plain("book")),
                      Res(Plain("article"))>>,
      estimated_hours |-> 20,
      skills_taught |-> <<"python", "testing">>,
      assessment |-> Literal("Pass the module quiz")]}

OddEntries ==
    {[resources |-> <<Res(Plain("video"))>>, estimated_hours |-> 20],
     [resources |-> <<Res(Plain("video")), Res(Str("blog post", TRUE, TRUE))>>,
      estimated_hours |-> 90,
      skills_taught |-> <<"sql">>,
      projects |-> <<[title |-> Str("Build a CLI", TRUE, FALSE),
                      deliverables |-> StrValue(Plain("a tool"))]>>,
      project |-> [title |-> Str("Build a CLI", TRUE, FALSE),
                   deliverables |-> ListOf(<<Plain("a tool")>>)]],
     [resources |-> <<Res(Plain("practice")), Res(Plain("tutorial"))>>,
      estimated_hours |-> 0],
     [resources |-> <<Res(Str("youtube", TRUE, TRUE)),
                      Res(Plain("xyz-unknown")), Res(Plain("exercise"))>>,
      estimated_hours |-> 20],
     [resources |-> <<Res(Plain("video")), Res(Plain("course"))>>,
      estimated_hours |-> 20,
      skills_taught |-> <<"python", "testing", "git">>,
      assessment |-> Literal("Complete module exercises"),
      projects |-> <<[title |-> Str("Build a CLI", TRUE, FALSE),
                      deliverables |-> StrValue(Plain("a tool"))]>>,
      project |-> [title |-> Str("Build a CLI", TRUE, FALSE),
                   deliverables |-> StrValue(Plain("a tool"))]]}

\* the modules lists: n entries, all alike or with the last one different
ModuleLists ==
    {[i \in 1..n |-> b] : n \in 5..MaxModules, b \in BaseEntries}
    \cup {[i \in 1..n |-> IF i = n THEN o ELSE b] :
             n \in 5..MaxModules, b \in BaseEntries, o \in OddEntries}

ReplyData ==
    {[modules |-> ms] : ms \in ModuleLists}
    \cup {[modules |-> ms, estimated_weeks |-> w] :
             ms \in ModuleLists, w \in {1, 14, 105}}

\* one well-formed reply, used where the wrapping of the text varies
SampleData == [modules |-> [i \in 1..6 |-> CHOOSE b \in BaseEntries : "assessment" \notin DOMAIN b]]

WrappedTexts ==
    {<<>>, <<WS>>, <<Garbage>>, <<FenceJson, Garbage>>,
     <<FenceJson, JsonDoc(SampleData), Fence>>,
     <<WS, Fence, JsonDoc(SampleData), Fence, WS>>,
     <<JsonDoc(SampleData), Garbage>>}

FinishReasons == {FINISH_STOP, FINISH_MAX_TOKENS, FINISH_SAFETY, FINISH_OTHER}

Reply(raises, has_candidate, finish_reason, has_content, text) ==
    [called |-> TRUE, raises |-> raises, has_candidate |-> has_candidate,
     finish_reason |-> finish_reason, has_content |-> has_content,
     text |-> text]

NoReply == [called |-> FALSE]

Replies ==
    {Reply(TRUE, FALSE, FINISH_OTHER, FALSE, <<>>),
     Reply(FALSE, FALSE, FINISH_OTHER, FALSE, <<>>)}
    \cup {Reply(FALSE, TRUE, f, FALSE, <<>>) : f \in FinishReasons}
    \cup {Reply(FALSE, TRUE, f, TRUE, t) :
             f \in FinishReasons, t \in WrappedTexts}
    \cup {Reply(FALSE, TRUE, f, TRUE, <<JsonDoc(d)>>) :
             f \in {FINISH_STOP, FINISH_MAX_TOKENS}, d \in ReplyData}

\* uuid.uuid4().hex[:8]
FreshIds == {"roadmap_1a2b3c4d", "roadmap_9f8e7d6c"}

UserIds == {"demo-user-123", "user-456"}

RoadmapIds == {"roadmap-abc123", "roadmap_1a2b3c4d"}

\* the JSON bodies of POST /roadmaps/generate
RequestBodies ==
    {[user_goal |-> g, user_skills |-> sk] :
        g \in {Str("Full Stack Developer", TRUE, FALSE),
               Str("Full Stack Developer", TRUE, TRUE),
               Plain(""), Str("", FALSE, TRUE)},
        sk \in {<<>>,
                <<SkillAssessment("javascript", 6, "intermediate"),
                  SkillAssessment("python", 3, "beginner")>>,
                <<SkillAssessment("git", 2, "beginner"),
                  SkillAssessment("javascript", 8, "advanced")>>}}

\* the body parsed into the model of the route's parameter
parse_request(body) ==
    RoadmapRequest(body.user_goal, body.user_skills, "beginner", NoneV)

\* constructed RoadmapRequest values (user_skills may be an empty list)
Requests ==
    {parse_request(b).value :
        b \in {x \in RequestBodies : IsOk(parse_request(x))}}

\* str[:100] of a prompt of the given length
PromptPreviewLen == 100

\* a prompt: its text trimmed, the length of that, and whether white space
\* surrounds it
Prompt(s, len) == [s |-> s, len |-> len, pad |-> FALSE]

Padded(prompt) == [prompt EXCEPT !.pad = TRUE]

\* str.strip() of a prompt
strip_prompt(prompt) == [prompt EXCEPT !.pad = FALSE]

Preview(prompt) == [prompt EXCEPT !.len = Min(prompt.len, PromptPreviewLen)]

UserPrompts == {Prompt("Add more Python modules", 23), Prompt("long", 150)}

\* module entries teaching two skills each, no skill twice
SkilledEntries ==
    [i \in 1..6 |->
        [resources |-> <<Res(Plain("video")), Res(Plain("course"))>>,
         skills_taught |-> <<"skill-" \o ToString(2 * i - 1),
                             "skill-" \o ToString(2 * i)>>]]

\* Roadmap values a client sends as existing_roadmap
ExistingRoadmaps ==
    {r.value : r \in
        {x \in {Google_create_roadmap_from_response(
                    [modules |-> [i \in 1..6 |-> b]],
                    [user_goal |-> goal], "user-456", "roadmap-abc123") :
                   b \in BaseEntries,
                   goal \in {Str("Data Scientist", TRUE, FALSE), Plain("")}}
                \cup {Google_create_roadmap_from_response(
                          [modules |-> SkilledEntries],
                          [user_goal |-> Str("Data Scientist", TRUE, FALSE)],
                          "user-456", "roadmap-abc123")} :
            IsOk(x)}}

\* RoadmapUpdateRequest(...) with validate_user_prompt
RoadmapUpdateRequest(user_prompt, existing_roadmap) ==
    IF user_prompt.len = 0
    THEN Raise(PyExc("ValidationError"))
    ELSE Ok([user_prompt |-> strip_prompt(user_prompt),
             existing_roadmap |-> existing_roadmap])

\* the prompts of the JSON bodies of PUT /roadmaps/{roadmap_id}
BodyPrompts ==
    UserPrompts
    \cup {Padded(Prompt("Add more Python modules", 23)), Prompt("", 0),
          Padded(Prompt("", 0))}

UpdateBodies ==
    {[user_prompt |-> p, existing_roadmap |-> e] :
        p \in BodyPrompts, e \in {NoneV} \cup ExistingRoadmaps}

parse_update_request(body) ==
    RoadmapUpdateRequest(body.user_prompt, body.existing_roadmap)

\* constructed RoadmapUpdateRequest values
UpdateRequests ==
    {parse_update_request(b).value :
        b \in {x \in UpdateBodies : IsOk(parse_update_request(x))}}

-----------------------------------------------------------------------------
(* services/ai_service_factory.py *)

\* AIServiceFactory._get_providers(): the registry, name to class
get_providers(openai_available) ==
    IF openai_available
    THEN [n \in {"google", "openai"} |->
             IF n = "google" THEN "GoogleProvider" ELSE "OpenAIProvider"]
    ELSE [n \in {"google"} |-> "GoogleProvider"]

\* `provider in providers`: the keys are compared with the name as given
registered(name, providers) ==
    ~name.cased /\ ~name.pad /\ name.s \in DOMAIN providers

\* create_ai_service once the name is found in the registry
create_registered(name, provider_class, ctor_raises) ==
    IF provider_class = "None"
    THEN Raise(AIServiceError(name.s, "PROVIDER_UNAVAILABLE", NoCause))
    ELSE IF ctor_raises
    THEN Raise(AIServiceError(name.s, "INITIALIZATION_ERROR",
                              Brief(PyExc("TypeError"))))
    ELSE Ok(provider_class)

\* AIServiceFactory.create_ai_service(provider, config)
create_ai_service(name, openai_available, ctor_raises) ==
    IF ~registered(name, get_providers(openai_available))
    THEN Raise(AIServiceError(name.s, "UNSUPPORTED_PROVIDER", NoCause))
    ELSE create_registered(name, get_providers(openai_available)[name.s],
                           ctor_raises)

\* the names create_ai_service_from_settings assembles a config for
ConfigRules == {"openai", "anthropic", "google", "ollama", "huggingface"}

\* create_ai_service_from_settings on the lowered name
from_settings_lowered(name, openai_available, ctor_raises) ==
    IF ~name.pad /\ name.s \in ConfigRules
    THEN create_ai_service(name, openai_available, ctor_raises)
    ELSE Raise(AIServiceError(name.s, "UNKNOWN_PROVIDER", NoCause))

\* create_ai_service_from_settings(settings)
create_ai_service_from_settings(ai_provider, openai_available, ctor_raises) ==
    from_settings_lowered(Lower(ai_provider), openai_available, ctor_raises)

\* provider names a configuration or a caller may give
ProviderNames ==
    {Plain("google"), Str("google", TRUE, FALSE), Plain("openai"),
     Str("openai", TRUE, FALSE), Plain("anthropic"), Plain("foo"), Plain("")}

NoFactory == [called |-> FALSE]

FactoryCall(via, name, openai_available, ctor_raises, result) ==
    [called |-> TRUE, via |-> via, name |-> name,
     openai_available |-> openai_available, ctor_raises |-> ctor_raises,
     result |-> result]

-----------------------------------------------------------------------------
(* services/roadmap_service.py *)

\* the except clauses wrapping whatever they catch
service_except_wrap_all(prov, e) ==
    AIServiceError(get_provider_name(prov), "UNEXPECTED_ERROR", Brief(e))

\* the except clauses of generate_roadmap and update_roadmap
service_except(prov, e) ==
    IF e.type = "AIServiceError"
    THEN e
    ELSE AIServiceError(get_provider_name(prov), "UNEXPECTED_ERROR", Brief(e))

generate_metadata(prov, rm) ==
    [ai_provider |-> model_info_provider(prov),
     modules_count |-> Len(rm.modules),
     total_estimated_hours |->
         SumSeq([i \in 1..Len(rm.modules) |-> rm.modules[i].estimated_hours])]

\* whether _get_db_pool gets past its early returns
pool_configured == asyncpg_available /\ database_url = "postgres"

NoArgs == [none |-> TRUE]

\* the requests in flight
TaskIds == 1..MaxTasks

\* a request: its operation, where it stands, and what its await returned
Task(o, at, got) == [op |-> o, pc |-> at, got |-> got]

NoTasks == [t \in TaskIds |-> Task("none", "none", NoneV)]

NoReceived == [kind |-> "none"]

Received(kind, body, model) == [kind |-> kind, body |-> body, model |-> model]

\* rows of public.roadmaps the database may hold for an id; roadmap_json is
\* a text that json.loads decodes or not
Row(id, json_ok) ==
    [id |-> id, user_id |-> "user-456",
     title |-> "Data Scientist Learning Path", json_ok |-> json_ok]

NoAnswer == [consulted |-> FALSE]

Failing(step) == [consulted |-> TRUE, fails |-> TRUE, step |-> step]

Fetched(row) == [consulted |-> TRUE, fails |-> FALSE, row |-> row]

\* what the database can do for one read of the row with this id
DbAnswers(id) ==
    {Failing("create_pool"), Failing("pool.acquire"),
     Failing("conn.fetchrow"), Fetched(NoneV), Fetched(Row(id, TRUE)),
     Fetched(Row(id, FALSE))}

\* get_roadmap from its try block on
get_roadmap_read(roadmap_id, ans) ==
    IF ans.fails
    THEN Ok([status |-> "error", roadmap_id |-> roadmap_id])
    ELSE IF ans.row = NoneV
    THEN Ok([status |-> "not_found", roadmap_id |-> roadmap_id])
    ELSE Ok([status |-> "ok", roadmap_id |-> ans.row.id,
             user_id |-> ans.row.user_id, title |-> ans.row.title,
             roadmap |-> IF ans.row.json_ok THEN "decoded" ELSE "raw text"])

\* RoadmapService.get_roadmap(roadmap_id); pool is _db_pool before the call
get_roadmap(roadmap_id, configured, pool, ans) ==
    IF ~configured
    THEN Ok([status |-> "not_configured", roadmap_id |-> roadmap_id])
    ELSE IF pool = NoneV /\ ans.fails /\ ans.step = "create_pool"
    THEN Raise(PyExc("OSError"))
    ELSE get_roadmap_read(roadmap_id, ans)

\* the collaborator calls of get_roadmap
get_roadmap_calls(configured, pool, ans) ==
    IF ~configured THEN <<>>
    ELSE (IF pool = NoneV THEN <<"create_pool">> ELSE <<>>)
         \o (IF ans.fails /\ ans.step = "create_pool" THEN <<>>
             ELSE IF ans.fails /\ ans.step = "pool.acquire"
             THEN <<"pool.acquire">>
             ELSE <<"pool.acquire", "conn.fetchrow">>)

Init ==
    /\ provider = "none"
    /\ factory = NoFactory
    /\ asyncpg_available \in BOOLEAN
    /\ database_url \in {"sqlite", "postgres"}
    /\ db_pool = NoneV
    /\ pc = "boot"
    /\ op = "none"
    /\ args = NoArgs
    /\ reply = NoReply
    /\ provResult = NoResult
    /\ provSteps = <<>>
    /\ genRequest = NoResult
    /\ dbAnswer = NoAnswer
    /\ received = NoReceived
    /\ health = NoneV
    /\ roadmap = NoneV
    /\ calls = <<>>
    /\ written = NoneV
    /\ outcome = NoResult
    /\ tasks = NoTasks
    /\ pools = 0
    /\ roadmap_service = NoneV
    /\ services = 0

\* main.py lifespan: create_ai_service_from_settings(settings)
CreateFromSettings ==
    /\ pc = "boot"
    /\ \E name \in ProviderNames, openai_available \in BOOLEAN,
          ctor_raises \in BOOLEAN :
          factory' = FactoryCall("settings", name, openai_available,
                                 ctor_raises,
                                 create_ai_service_from_settings(
                                     name, openai_available, ctor_raises))
    /\ pc' = "booted"
    /\ UNCHANGED <<provider, asyncpg_available, database_url, tasks, pools, roadmap_service, services, health, received, db_pool, op,
                   args, reply, provResult, provSteps, genRequest, dbAnswer, roadmap, calls,
                   written, outcome>>

\* a caller of AIServiceFactory.create_ai_service(provider, config)
CreateDirect ==
    /\ pc = "boot"
    /\ \E name \in ProviderNames, openai_available \in BOOLEAN,
          ctor_raises \in BOOLEAN :
          factory' = FactoryCall("direct", name, openai_available,
                                 ctor_raises,
                                 create_ai_service(name, openai_available,
                                                   ctor_raises))
    /\ pc' = "booted"
    /\ UNCHANGED <<provider, asyncpg_available, database_url, tasks, pools, roadmap_service, services, health, received, db_pool, op,
                   args, reply, provResult, provSteps, genRequest, dbAnswer, roadmap, calls,
                   written, outcome>>

\* RoadmapService(ai_service): the service takes the instance and serves
Serve ==
    /\ pc = "booted"
    /\ IsOk(factory.result)
    /\ provider' = IF factory.result.value = "GoogleProvider"
                   THEN "google" ELSE "openai"
    /\ factory' = NoFactory
    /\ pc' = "idle"
    /\ UNCHANGED <<asyncpg_available, database_url, tasks, pools, roadmap_service, services, health, received, db_pool, op, args, reply,
                   provResult, provSteps, genRequest, dbAnswer, roadmap, calls, written, outcome>>

\* where a route goes with the model of its body: on to the service, or
\* out with the validation error
after_parse(model) == IF IsOk(model) THEN "parsed" ELSE "rejected"

\* POST /roadmaps/generate: the body is parsed into a RoadmapRequest
ReceiveGenerate ==
    /\ pc = "idle"
    /\ \E body \in RequestBodies :
          /\ received' = Received("generate", body, parse_request(body))
          /\ pc' = after_parse(parse_request(body))
    /\ UNCHANGED <<provider, factory, asyncpg_available, database_url, tasks, pools, roadmap_service, services, health,
                   db_pool, op, args, reply, provResult, provSteps,
                   genRequest, dbAnswer, roadmap, calls, written, outcome>>

\* PUT /roadmaps/{roadmap_id}: the body is parsed into a RoadmapUpdateRequest
ReceiveUpdate ==
    /\ pc = "idle"
    /\ \E body \in UpdateBodies :
          /\ received' = Received("update", body, parse_update_request(body))
          /\ pc' = after_parse(parse_update_request(body))
    /\ UNCHANGED <<provider, factory, asyncpg_available, database_url, tasks, pools, roadmap_service, services, health,
                   db_pool, op, args, reply, provResult, provSteps,
                   genRequest, dbAnswer, roadmap, calls, written, outcome>>

\* the body was refused: the route is never entered
Reject ==
    /\ pc = "rejected"
    /\ received' = NoReceived
    /\ pc' = "idle"
    /\ UNCHANGED <<provider, factory, asyncpg_available, database_url, tasks, pools, roadmap_service, services, health,
                   db_pool, op, args, reply, provResult, provSteps,
                   genRequest, dbAnswer, roadmap, calls, written, outcome>>

\* RoadmapService.generate_roadmap up to its await of the provider
StartGenerate ==
    /\ pc = "parsed"
    /\ received.kind = "generate"
    /\ \E user_id \in UserIds :
          args' = [request |-> received.model.value, user_id |-> user_id]
    /\ received' = NoReceived
    /\ op' = "generate"
    /\ pc' = "provider"
    /\ UNCHANGED <<provider, factory, asyncpg_available, database_url, tasks, pools, roadmap_service, services, health, db_pool,
                   reply, provResult, provSteps, genRequest, dbAnswer, roadmap,
                   calls, written, outcome>>

\* update_roadmap without the check of existing_roadmap
update_roadmap_start_unchecked(prov, update_request) == NoResult

\* RoadmapService.update_roadmap up to its await of the provider, or to the
\* end when existing_roadmap is missing
update_roadmap_start(prov, update_request) ==
    IF update_request.existing_roadmap = NoneV
    THEN Raise(service_except(prov, PyExc("ValueError")))
    ELSE NoResult

StartUpdate ==
    /\ pc = "parsed"
    /\ received.kind = "update"
    /\ \E roadmap_id \in RoadmapIds, user_id \in UserIds :
          args' = [roadmap_id |-> roadmap_id,
                   update_request |-> received.model.value,
                   user_id |-> user_id]
    /\ outcome' = update_roadmap_start(provider, received.model.value)
    /\ pc' = IF IsRaised(update_roadmap_start(provider, received.model.value))
             THEN "done" ELSE "provider"
    /\ received' = NoReceived
    /\ op' = "update"
    /\ UNCHANGED <<provider, factory, asyncpg_available, database_url, tasks, pools, roadmap_service, services, health, db_pool,
                   reply, provResult, provSteps, genRequest, dbAnswer, roadmap,
                   calls, written>>

\* whether the provider got as far as invoking the remote model
invoked_model(ran) == \E k \in 1..Len(ran.steps) : ran.steps[k] = "model_call"

\* the calls of a provider that invokes the model again after a failure
provider_calls_retrying(name, ran) ==
    <<name>>
    \o (IF name = "provider.update_roadmap" /\ ran.steps # <<>>
        THEN <<"provider.generate_roadmap">> ELSE <<>>)
    \o (IF invoked_model(ran) THEN <<"model_call">> ELSE <<>>)
    \o (IF invoked_model(ran) /\ IsRaised(ran.res)
        THEN <<"model_call">> ELSE <<>>)

\* the calls a provider operation adds to the request's record
provider_calls(name, ran) ==
    <<name>>
    \o (IF name = "provider.update_roadmap" /\ ran.steps # <<>>
        THEN <<"provider.generate_roadmap">> ELSE <<>>)
    \o (IF invoked_model(ran) THEN <<"model_call">> ELSE <<>>)

\* the provider's return followed by get_model_info and the save whatever
\* the provider did
AfterProvider_saving_failures(name, ran, r) ==
    /\ provResult' = ran.res
    /\ provSteps' = ran.steps
    /\ calls' = calls \o provider_calls(name, ran)
    /\ reply' = IF invoked_model(ran) THEN r ELSE NoReply
    /\ pc' = "model_info"
    /\ UNCHANGED outcome
    /\ IF IsOk(ran.res)
       THEN roadmap' = ran.res.value
       ELSE UNCHANGED roadmap

\* what follows the provider's return in generate_roadmap / update_roadmap:
\* on with the roadmap, or out through the except clauses
AfterProvider(name, ran, r) ==
    /\ provResult' = ran.res
    /\ provSteps' = ran.steps
    /\ calls' = calls \o provider_calls(name, ran)
    /\ reply' = IF invoked_model(ran) THEN r ELSE NoReply
    /\ IF IsOk(ran.res)
       THEN /\ roadmap' = ran.res.value
            /\ pc' = "model_info"
            /\ UNCHANGED outcome
       ELSE /\ outcome' = Raise(service_except(provider, ran.res.exc))
            /\ pc' = "done"
            /\ UNCHANGED roadmap

\* await self.ai_service.generate_roadmap(request, user_id)
ProviderGenerate ==
    /\ pc = "provider"
    /\ op = "generate"
    /\ \E r \in Replies, fresh \in FreshIds :
          AfterProvider("provider.generate_roadmap",
                        generate_roadmap(provider, args.request, args.user_id,
                                         r, fresh),
                        r)
    /\ genRequest' = Ok(args.request)
    /\ UNCHANGED <<provider, factory, asyncpg_available, database_url, tasks, pools, roadmap_service, services, health, received, db_pool, op,
                   args, dbAnswer, written>>

\* the assignments without the one of the id
stamp_updated_keep_id(rm, roadmap_id, user_id) ==
    [rm EXCEPT !.user_id = user_id, !.updated_at = "now"]

\* updated_roadmap.id / user_id / updated_at assignments of update_roadmap
stamp_updated(rm, roadmap_id, user_id) ==
    [rm EXCEPT !.id = roadmap_id, !.user_id = user_id, !.updated_at = "now"]

\* the provider's return followed, when it returned, by the assignments
stamped(ran, roadmap_id, user_id) ==
    IF IsOk(ran.res)
    THEN Ran(Ok(stamp_updated(ran.res.value, roadmap_id, user_id)), ran.steps)
    ELSE ran

\* await self.ai_service.update_roadmap(...), then the stamping
ProviderUpdate ==
    /\ pc = "provider"
    /\ op = "update"
    /\ \E r \in Replies, fresh \in FreshIds,
          unique_skills \in Orderings(skills_in_order(args.update_request.existing_roadmap)) :
          /\ AfterProvider("provider.update_roadmap",
                           stamped(update_roadmap(
                                       provider,
                                       args.update_request.existing_roadmap,
                                       args.update_request.user_prompt,
                                       args.user_id, unique_skills, r, fresh),
                                   args.roadmap_id, args.user_id),
                           r)
          /\ genRequest' = update_new_request(
                               args.update_request.existing_roadmap,
                               args.update_request.user_prompt, unique_skills)
    /\ UNCHANGED <<provider, factory, asyncpg_available, database_url, tasks, pools, roadmap_service, services, health, received, db_pool, op,
                   args, dbAnswer, written>>

\* await self.ai_service.get_model_info()
GetModelInfo ==
    /\ pc = "model_info"
    /\ calls' = Append(calls, "get_model_info")
    /\ pc' = "save"
    /\ UNCHANGED <<provider, factory, asyncpg_available, database_url, tasks, pools, roadmap_service, services, health, received, db_pool, op,
                   args, reply, provResult, provSteps, genRequest, dbAnswer, roadmap, written, outcome>>

\* _save_roadmap_to_db when _get_db_pool returns None
SaveSkipped ==
    /\ pc = "save"
    /\ ~pool_configured
    /\ pc' = "respond"
    /\ UNCHANGED <<provider, factory, asyncpg_available, database_url, tasks, pools, roadmap_service, services, health, received, db_pool, op,
                   args, reply, provResult, provSteps, genRequest, dbAnswer, roadmap, calls, written, outcome>>

\* the try block of _save_roadmap_to_db: failures are logged and swallowed
save_try(db) ==
    IF db = "ok" THEN <<"pool.acquire", "conn.execute">>
    ELSE IF db = "execute_fails" THEN <<"pool.acquire", "conn.execute">>
    ELSE <<"pool.acquire">>

\* _save_roadmap_to_db with a pool already there
SaveWithPool ==
    /\ pc = "save"
    /\ pool_configured
    /\ db_pool # NoneV
    /\ \E db \in {"ok", "acquire_fails", "execute_fails"} :
          /\ calls' = calls \o save_try(db)
          /\ written' = IF db = "ok" THEN roadmap ELSE written
    /\ pc' = "respond"
    /\ UNCHANGED <<provider, factory, asyncpg_available, database_url, tasks, pools, roadmap_service, services, health, received, db_pool, op,
                   args, reply, provResult, provSteps, genRequest, dbAnswer, roadmap, outcome>>

\* what _save_roadmap_to_db does with a failure of asyncpg.create_pool:
\* the call is outside its try block, the exception reaches the service
create_pool_failure(prov, e) == Raise(service_except(prov, e))

\* _save_roadmap_to_db creating the pool first
SaveCreatingPool ==
    /\ pc = "save"
    /\ pool_configured
    /\ db_pool = NoneV
    /\ \/ /\ db_pool' = [none |-> FALSE]
          /\ \E db \in {"ok", "acquire_fails", "execute_fails"} :
                /\ calls' = calls \o <<"create_pool">> \o save_try(db)
                /\ written' = IF db = "ok" THEN roadmap ELSE written
          /\ pc' = "respond"
          /\ UNCHANGED outcome
       \/ /\ calls' = Append(calls, "create_pool")
          /\ outcome' = create_pool_failure(provider, PyExc("OSError"))
          /\ pc' = IF IsRaised(outcome') THEN "done" ELSE "respond"
          /\ UNCHANGED <<db_pool, written>>
    /\ UNCHANGED <<provider, factory, asyncpg_available, database_url, tasks, pools, roadmap_service, services, health, received, op, args, reply,
                   provResult, provSteps, genRequest, dbAnswer, roadmap>>

\* the answers of the database that can occur with this pool
possible_answers(id, configured, pool) ==
    IF ~configured THEN {NoAnswer}
    ELSE IF pool = NoneV THEN DbAnswers(id)
    ELSE DbAnswers(id) \ {Failing("create_pool")}

\* RoadmapService.get_roadmap, from the call to its return
GetRoadmap ==
    /\ pc = "idle"
    /\ \E roadmap_id \in RoadmapIds :
          \E ans \in possible_answers(roadmap_id, pool_configured, db_pool) :
             /\ args' = [roadmap_id |-> roadmap_id]
             /\ dbAnswer' = ans
             /\ outcome' = get_roadmap(roadmap_id, pool_configured, db_pool,
                                       ans)
             /\ calls' = get_roadmap_calls(pool_configured, db_pool, ans)
             /\ db_pool' = IF pool_configured /\ db_pool = NoneV
                              /\ ans # Failing("create_pool")
                           THEN [none |-> FALSE] ELSE db_pool
    /\ op' = "get_roadmap"
    /\ pc' = "done"
    /\ UNCHANGED <<provider, factory, asyncpg_available, database_url, tasks, pools, roadmap_service, services, health, received, reply,
                   provResult, provSteps, genRequest, roadmap, written>>

\* self.model_name / self.model with the defaults of __init__
model_of(prov) == IF prov = "google" THEN "gemini-1.5-flash" ELSE "gpt-3.5-turbo"

\* the probe call returned
Returned == [raises |-> FALSE]

\* the probe call raised e
Raised(e) == [raises |-> TRUE, exc |-> e]

\* the outcomes of the probe call to the backend
Probes ==
    {Returned}
    \cup {Raised(PyExc(t)) : t \in {"APIError", "TimeoutError", "ValueError"}}
    \cup {Raised(AIServiceError("google", "GENERATION_ERROR", NoCause))}

\* str(e)
str(e) == <<"str", e.type>>

\* GoogleProvider.health_check
Google_health_check(probe) ==
    IF ~probe.raises
    THEN [status |-> "healthy", provider |-> "google",
          model |-> model_of("google"), api_accessible |-> TRUE]
    ELSE [status |-> "unhealthy", provider |-> "google",
          model |-> model_of("google"), error |-> str(probe.exc),
          api_accessible |-> FALSE]

\* a health check that answers healthy whatever the probe did
OpenAI_health_check_always_healthy(probe) ==
    [status |-> "healthy", provider |-> "openai",
     model |-> model_of("openai"), response_time_ms |-> 0,
     api_accessible |-> TRUE]

\* OpenAIProvider.health_check
OpenAI_health_check(probe) ==
    IF ~probe.raises
    THEN [status |-> "healthy", provider |-> "openai",
          model |-> model_of("openai"), response_time_ms |-> 0,
          api_accessible |-> TRUE]
    ELSE [status |-> "unhealthy", provider |-> "openai",
          model |-> model_of("openai"), error |-> str(probe.exc),
          api_accessible |-> FALSE]

health_check(prov, probe) ==
    IF prov = "google" THEN Google_health_check(probe)
    ELSE OpenAI_health_check(probe)

\* the probe's outcome and the status object health_check made of it
Checked(probe, ai_health) == [probe |-> probe, ai_health |-> ai_health]

\* raise HTTPException(status_code=...)
HTTPException(status_code) ==
    [type |-> "HTTPException", status_code |-> status_code]

\* readiness_check after the status object is there
readiness(prov, ai_health) ==
    IF ai_health.status # "healthy"
    THEN Raise(HTTPException(503))
    ELSE Ok([status |-> "ready",
             ai_service |-> [status |-> "healthy", provider |-> prov,
                             model |-> model_of(prov)]])

readiness_calls(ai_health) ==
    IF ai_health.status # "healthy" THEN <<"health_check">>
    ELSE <<"health_check", "get_model_info">>

\* GET /health/ready
ReadinessCheck ==
    /\ pc = "idle"
    /\ \E probe \in Probes :
          /\ health' = Checked(probe, health_check(provider, probe))
          /\ outcome' = readiness(provider, health_check(provider, probe))
          /\ calls' = readiness_calls(health_check(provider, probe))
    /\ op' = "readiness"
    /\ pc' = "done"
    /\ UNCHANGED <<provider, factory, asyncpg_available, database_url, tasks, pools, roadmap_service, services,
                   received, db_pool, args, reply, provResult, provSteps,
                   genRequest, dbAnswer, roadmap, written>>

\* RoadmapResponse(success=True, roadmap=..., metadata=...)
Respond ==
    /\ pc = "respond"
    /\ outcome' =
          Ok([success |-> TRUE, roadmap |-> roadmap,
              metadata |->
                  IF op = "update"
                  THEN generate_metadata(provider, roadmap)
                       @@ [update_type |-> "modification",
                           modification_prompt |->
                               Preview(args.update_request.user_prompt)]
                  ELSE generate_metadata(provider, roadmap)])
    /\ pc' = "done"
    /\ UNCHANGED <<provider, factory, asyncpg_available, database_url, tasks, pools, roadmap_service, services, health, received, db_pool, op,
                   args, reply, provResult, provSteps, genRequest, dbAnswer, roadmap, calls, written>>

\* the operation has returned; the service waits for the next request
Return ==
    /\ pc = "done"
    /\ pc' = "idle"
    /\ op' = "none"
    /\ args' = NoArgs
    /\ reply' = NoReply
    /\ provResult' = NoResult
    /\ provSteps' = <<>>
    /\ genRequest' = NoResult
    /\ dbAnswer' = NoAnswer
    /\ roadmap' = NoneV
    /\ calls' = <<>>
    /\ written' = NoneV
    /\ outcome' = NoResult
    /\ health' = NoneV
    /\ UNCHANGED <<provider, factory, asyncpg_available, database_url, tasks, pools, roadmap_service, services, received, db_pool>>

Next ==
    \/ CreateFromSettings
    \/ CreateDirect
    \/ Serve
    \/ ReceiveGenerate
    \/ ReceiveUpdate
    \/ Reject
    \/ StartGenerate
    \/ StartUpdate
    \/ ProviderGenerate
    \/ ProviderUpdate
    \/ GetModelInfo
    \/ SaveSkipped
    \/ SaveWithPool
    \/ SaveCreatingPool
    \/ Respond
    \/ GetRoadmap
    \/ ReadinessCheck
    \/ Return

Spec == Init /\ [][Next]_vars

-----------------------------------------------------------------------------
(* Concurrent requests on one RoadmapService: _get_db_pool *)

\* the variables of the single request followed by Spec, the pool apart
requestVars == <<provider, factory, received, health, pc, op, args, reply, provResult, provSteps, genRequest, dbAnswer, roadmap, calls, written, outcome>>

\* nothing of a single request is in flight
request_at_rest ==
    /\ factory = NoFactory
    /\ pc = "idle"
    /\ op = "none"
    /\ args = NoArgs
    /\ reply = NoReply
    /\ provResult = NoResult
    /\ provSteps = <<>>
    /\ genRequest = NoResult
    /\ dbAnswer = NoAnswer
    /\ received = NoReceived
    /\ health = NoneV
    /\ roadmap = NoneV
    /\ calls = <<>>
    /\ written = NoneV
    /\ outcome = NoResult

\* an asyncpg pool, told from the others by the order of creation
Pool(n) == [none |-> FALSE, id |-> n]

\* the operations of RoadmapService that ask for the pool
PoolOperations == {"generate", "update", "get_roadmap"}

InitPool ==
    /\ request_at_rest
    /\ provider \in {"google", "openai"}
    /\ asyncpg_available \in BOOLEAN
    /\ database_url \in {"sqlite", "postgres"}
    /\ db_pool = NoneV
    /\ tasks = NoTasks
    /\ pools = 0
    /\ roadmap_service = NoneV
    /\ services = 0

\* a request for one of the operations arrives at the service
Arrive(t) ==
    /\ tasks[t].pc = "none"
    /\ \E o \in PoolOperations :
          tasks' = [tasks EXCEPT ![t] = Task(o, "arrived", NoneV)]
    /\ UNCHANGED <<requestVars, asyncpg_available, database_url, db_pool,
                   pools, roadmap_service, services>>

\* generate_roadmap / update_roadmap up to _save_roadmap_to_db: the provider
\* call and get_model_info come first, and a failure of them ends the request
ProviderAwaited(t) ==
    /\ tasks[t].pc = "arrived"
    /\ tasks[t].op \in {"generate", "update"}
    /\ \E returned \in BOOLEAN :
          tasks' = [tasks EXCEPT ![t].pc =
                       IF returned THEN "get_db_pool" ELSE "done"]
    /\ UNCHANGED <<requestVars, asyncpg_available, database_url, db_pool,
                   pools, roadmap_service, services>>

\* get_roadmap: pool = await self._get_db_pool() is its first statement
GetRoadmapCalled(t) ==
    /\ tasks[t].pc = "arrived"
    /\ tasks[t].op = "get_roadmap"
    /\ tasks' = [tasks EXCEPT ![t].pc = "get_db_pool"]
    /\ UNCHANGED <<requestVars, asyncpg_available, database_url, db_pool,
                   pools, roadmap_service, services>>

\* _get_db_pool up to its await: the early returns, the test of
\* self._db_pool, and the call of asyncpg.create_pool
get_db_pool_enter(available, url, pool) ==
    IF ~available THEN Task("", "have", NoneV)
    ELSE IF url # "postgres" THEN Task("", "have", NoneV)
    ELSE IF pool = NoneV THEN Task("", "create_pool", NoneV)
    ELSE Task("", "have", pool)

GetDbPoolEnter(t) ==
    /\ tasks[t].pc = "get_db_pool"
    /\ tasks' = [tasks EXCEPT ![t] =
                    [get_db_pool_enter(asyncpg_available, database_url,
                                       db_pool)
                        EXCEPT !.op = tasks[t].op]]
    /\ UNCHANGED <<requestVars, asyncpg_available, database_url, db_pool,
                   pools, roadmap_service, services>>

\* the await of asyncpg.create_pool resumes with a new pool:
\* self._db_pool = <the pool>; return self._db_pool
CreatePoolReturned(t) ==
    /\ tasks[t].pc = "create_pool"
    /\ pools' = pools + 1
    /\ db_pool' = Pool(pools + 1)
    /\ tasks' = [tasks EXCEPT ![t].pc = "have", ![t].got = Pool(pools + 1)]
    /\ UNCHANGED <<requestVars, asyncpg_available, database_url,
                   roadmap_service, services>>

\* the await of asyncpg.create_pool raises: nothing is assigned
CreatePoolRaised(t) ==
    /\ tasks[t].pc = "create_pool"
    /\ tasks' = [tasks EXCEPT ![t].pc = "raised"]
    /\ UNCHANGED <<requestVars, asyncpg_available, database_url, db_pool,
                   pools, roadmap_service, services>>

\* the caller of _get_db_pool goes on with what it got and ends
PoolUsed(t) ==
    /\ tasks[t].pc = "have"
    /\ tasks' = [tasks EXCEPT ![t].pc = "done"]
    /\ UNCHANGED <<requestVars, asyncpg_available, database_url, db_pool,
                   pools, roadmap_service, services>>

NextPool ==
    \/ \E t \in TaskIds : Arrive(t)
    \/ \E t \in TaskIds : ProviderAwaited(t)
    \/ \E t \in TaskIds : GetRoadmapCalled(t)
    \/ \E t \in TaskIds : GetDbPoolEnter(t)
    \/ \E t \in TaskIds : CreatePoolReturned(t)
    \/ \E t \in TaskIds : CreatePoolRaised(t)
    \/ \E t \in TaskIds : PoolUsed(t)

SpecPool == InitPool /\ [][NextPool]_vars

-----------------------------------------------------------------------------
(* mcp_server.py: the lazily initialised global roadmap_service *)

\* the variables the tool calls of the server leave alone
serverRest == <<provider, received, health, asyncpg_available, database_url, db_pool, pc, op, args, reply, provResult, provSteps, genRequest, dbAnswer, roadmap, calls, written, outcome, pools>>

\* the settings of the process, before any call of the factory
Settings(name, openai_available) ==
    [called |-> FALSE, name |-> name, openai_available |-> openai_available]

\* RoadmapService(ai_service), told from the others by the order of
\* construction
Service(n, ai_service) == [none |-> FALSE, id |-> n, ai_service |-> ai_service]

\* where a tool call stands after the part of initialize_services that runs
\* without suspension, and what the globals are then
Initialized(rs, n, at, got) ==
    [roadmap_service |-> rs, services |-> n, pc |-> at, got |-> got]

\* initialize_services that builds the service into a local and leaves the
\* assignment of the global to its caller
initialize_services_local(rs, n, ai_service) ==
    IF rs # NoneV THEN Initialized(rs, n, "returned", rs)
    ELSE IF ~IsOk(ai_service) THEN Initialized(rs, n, "raised", NoneV)
    ELSE Initialized(rs, n + 1, "get_model_info",
                     Service(n + 1, ai_service.value))

\* initialize_services up to await ai_service.get_model_info(): the test of
\* the global, create_ai_service_from_settings, and the assignment
\* roadmap_service = RoadmapService(ai_service)
initialize_services(rs, n, ai_service) ==
    IF rs # NoneV THEN Initialized(rs, n, "returned", rs)
    ELSE IF ~IsOk(ai_service) THEN Initialized(rs, n, "raised", NoneV)
    ELSE Initialized(Service(n + 1, ai_service.value), n + 1,
                     "get_model_info", NoneV)

InitMcp ==
    /\ pc = "idle"
    /\ op = "none"
    /\ args = NoArgs
    /\ reply = NoReply
    /\ provResult = NoResult
    /\ provSteps = <<>>
    /\ genRequest = NoResult
    /\ dbAnswer = NoAnswer
    /\ received = NoReceived
    /\ health = NoneV
    /\ roadmap = NoneV
    /\ calls = <<>>
    /\ written = NoneV
    /\ outcome = NoResult
    /\ \E name \in ProviderNames, openai_available \in BOOLEAN :
          factory = Settings(name, openai_available)
    /\ provider = "none"
    /\ asyncpg_available \in BOOLEAN
    /\ database_url \in {"sqlite", "postgres"}
    /\ db_pool = NoneV
    /\ tasks = NoTasks
    /\ pools = 0
    /\ roadmap_service = NoneV
    /\ services = 0

\* a generate_roadmap or update_roadmap tool call arrives
ToolCalled(t) ==
    /\ tasks[t].pc = "none"
    /\ \E o \in {"generate", "update"} :
          tasks' = [tasks EXCEPT ![t] = Task(o, "tool", NoneV)]
    /\ UNCHANGED <<serverRest, factory, roadmap_service, services>>

\* if roadmap_service is None: ... with the global set: on to the try block
ToolFoundService(t) ==
    /\ tasks[t].pc = "tool"
    /\ roadmap_service # NoneV
    /\ tasks' = [tasks EXCEPT ![t].pc = "run", ![t].got = roadmap_service]
    /\ UNCHANGED <<serverRest, factory, roadmap_service, services>>

\* if roadmap_service is None: await initialize_services(), as far as it runs
\* without suspension
ToolInitializes(t) ==
    /\ tasks[t].pc = "tool"
    /\ roadmap_service = NoneV
    /\ \E ctor_raises \in BOOLEAN :
          /\ factory' = FactoryCall("settings", factory.name,
                                    factory.openai_available, ctor_raises,
                                    create_ai_service_from_settings(
                                        factory.name, factory.openai_available,
                                        ctor_raises))
          /\ roadmap_service' =
                initialize_services(roadmap_service, services,
                                    factory'.result).roadmap_service
          /\ services' =
                initialize_services(roadmap_service, services,
                                    factory'.result).services
          /\ tasks' = [tasks EXCEPT
                ![t].pc = initialize_services(roadmap_service, services,
                                              factory'.result).pc,
                ![t].got = initialize_services(roadmap_service, services,
                                               factory'.result).got]
    /\ UNCHANGED serverRest

\* get_model_info returned: initialize_services returns the global, and the
\* tool assigns what it got to the global
ModelInfoReturned(t) ==
    /\ tasks[t].pc = "get_model_info"
    /\ tasks' = [tasks EXCEPT ![t].pc = "run", ![t].got = roadmap_service]
    /\ UNCHANGED <<serverRest, factory, roadmap_service, services>>

\* the try block of the tool: the call of the service, and the answer
ToolRan(t) ==
    /\ tasks[t].pc = "run"
    /\ tasks' = [tasks EXCEPT ![t].pc = "done"]
    /\ UNCHANGED <<serverRest, factory, roadmap_service, services>>

NextMcp ==
    \/ \E t \in TaskIds : ToolCalled(t)
    \/ \E t \in TaskIds : ToolFoundService(t)
    \/ \E t \in TaskIds : ToolInitializes(t)
    \/ \E t \in TaskIds : ModelInfoReturned(t)
    \/ \E t \in TaskIds : ToolRan(t)

SpecMcp == InitMcp /\ [][NextMcp]_vars

-----------------------------------------------------------------------------
(* api/roadmap_routes.py: the status the update route answers with *)

update_route_status(result) ==
    IF IsOk(result) THEN 200
    ELSE IF result.exc.type = "ValueError" THEN 400
    ELSE IF result.exc.type = "AIServiceError" THEN 500
    ELSE 500

-----------------------------------------------------------------------------
(* Properties *)

\* the provider call of the request in flight has returned or raised
ProviderReturned == provResult # NoResult

\* the backend answered with a first candidate
HasCandidate == reply.called /\ ~reply.raises /\ reply.has_candidate

\* what the provider's JSON parse step makes of the reply's text
reply_parse(prov, r) ==
    IF prov = "google" THEN json_loads(Google_clean(r.text))
    ELSE json_loads(r.text)

\* the reply's text reached the JSON parse step and decoded
ReplyDecoded ==
    /\ HasCandidate
    /\ has_text(reply)
    /\ provider = "google" => reply.finish_reason # FINISH_SAFETY
    /\ IsOk(reply_parse(provider, reply))

ReplyModules == Get(reply_parse(provider, reply).value, "modules", <<>>)

\* C1: every Roadmap has exactly 6 modules: a reply whose modules list has
\* another length makes the provider call fail, and the roadmap the provider
\* returned, the one the service holds and the one it answers with all have
\* 6 modules.
C1_ExactlySixModules ==
    /\ IsOk(provResult) => Len(provResult.value.modules) = 6
    /\ roadmap # NoneV => Len(roadmap.modules) = 6
    /\ (op \in {"generate", "update"} /\ IsOk(outcome))
           => Len(outcome.value.roadmap.modules) = 6
    /\ (ProviderReturned /\ ReplyDecoded /\ Len(ReplyModules) # 6)
           => IsRaised(provResult)

\* a reply with 7 module entries, each acceptable alone, was refused
C1_Witness ==
    /\ ProviderReturned
    /\ ReplyDecoded
    /\ Len(ReplyModules) = 7
    /\ \A i \in 1..7 : Len(Get(ReplyModules[i], "resources", <<>>)) >= 2
    /\ \A i \in 1..7 : Get(ReplyModules[i], "estimated_hours", 30) >= 1
    /\ IsRaised(provResult)

\* C2: every constructed Roadmap has estimated_weeks within 4 of
\* max(1, ceil(total module hours / 10)).
C2_WeeksWithinTolerance ==
    IsOk(provResult) =>
        Abs(provResult.value.estimated_weeks
            - calculated_weeks(provResult.value.modules)) <= 4

\* C3: every module has at least 2 resources: a reply with a module entry of
\* fewer than 2 resources makes the provider call fail, and every module of
\* a returned roadmap has at least 2.
C3_AtLeastTwoResources ==
    /\ IsOk(provResult) =>
           \A i \in 1..Len(provResult.value.modules) :
               Len(provResult.value.modules[i].resources) >= 2
    /\ (op \in {"generate", "update"} /\ IsOk(outcome)) =>
           \A i \in 1..Len(outcome.value.roadmap.modules) :
               Len(outcome.value.roadmap.modules[i].resources) >= 2
    /\ (/\ ProviderReturned
        /\ ReplyDecoded
        /\ \E i \in 1..Len(ReplyModules) :
               Len(Get(ReplyModules[i], "resources", <<>>)) < 2)
           => IsRaised(provResult)

\* a reply of 6 modules, one of them with a single resource, was refused
C3_Witness ==
    /\ ProviderReturned
    /\ ReplyDecoded
    /\ Len(ReplyModules) = 6
    /\ \E i \in 1..6 : Len(Get(ReplyModules[i], "resources", <<>>)) = 1
    /\ IsRaised(provResult)

\* C4: with finish reason safety-blocked on the first candidate, the caller
\* of the provider's generate_roadmap gets an AIServiceError with error_code
\* SAFETY_BLOCKED, whether or not there is content, and no roadmap.
C4_SafetyBlockedCode ==
    (/\ provider = "google"
     /\ ProviderReturned
     /\ HasCandidate
     /\ reply.finish_reason = FINISH_SAFETY)
        => /\ IsRaised(provResult)
           /\ provResult.exc.type = "AIServiceError"
           /\ provResult.exc.error_code = "SAFETY_BLOCKED"

\* the reply's text reached the JSON parse step and did not decode
ReplyUndecodable ==
    /\ HasCandidate
    /\ has_text(reply)
    /\ provider = "google" => reply.finish_reason # FINISH_SAFETY
    /\ ~IsOk(reply_parse(provider, reply))

\* C5: when the cleaned text does not decode as JSON, generate_roadmap
\* fails with TRUNCATED_RESPONSE if the finish reason was length-truncated
\* and with PARSE_ERROR otherwise, the JSON parse exception being the cause.
C5_ParseFailureCode ==
    (ProviderReturned /\ ReplyUndecodable)
        => /\ IsRaised(provResult)
           /\ provResult.exc.type = "AIServiceError"
           /\ provResult.exc.error_code =
                  IF reply.finish_reason = FINISH_MAX_TOKENS
                  THEN "TRUNCATED_RESPONSE" ELSE "PARSE_ERROR"
           /\ provResult.exc.original_error.type = "JSONDecodeError"

\* the error code the absence of output is dispatched to
absent_output_code(r) ==
    IF ~r.has_candidate THEN "SAFETY_FILTER"
    ELSE IF r.finish_reason = FINISH_MAX_TOKENS THEN "MAX_TOKENS_EXCEEDED"
    ELSE "NO_CONTENT"

\* C6: for every provider, no candidate fails with SAFETY_FILTER, a
\* length-truncated candidate without content with MAX_TOKENS_EXCEEDED,
\* absent content with any other non-safety finish reason with NO_CONTENT;
\* neither the JSON parse step nor schema construction is reached.
C6_AbsentOutputCode ==
    (/\ ProviderReturned
     /\ reply.called
     /\ ~reply.raises
     /\ \/ ~reply.has_candidate
        \/ ~reply.has_content /\ reply.finish_reason # FINISH_SAFETY)
        => /\ IsRaised(provResult)
           /\ provResult.exc.type = "AIServiceError"
           /\ provResult.exc.error_code = absent_output_code(reply)
           /\ \A k \in 1..Len(provSteps) :
                  provSteps[k] \notin {"json_loads", "create_roadmap"}

\* the same answer of the backend with finish reason normal stop
StopReply(r) == [r EXCEPT !.finish_reason = FINISH_STOP]

\* C7: a length-truncated finish reason alone is no error: when the content
\* with finish reason normal stop yields a Roadmap, the same content with
\* finish reason length-truncated yields that same Roadmap.
C7_TruncatedContentUsed ==
    (/\ op = "generate"
     /\ ProviderReturned
     /\ HasCandidate
     /\ reply.finish_reason = FINISH_MAX_TOKENS)
        => \A fresh \in FreshIds :
               IsOk(generate_roadmap(provider, args.request, args.user_id,
                                     StopReply(reply), fresh).res)
                   => /\ IsOk(provResult)
                      /\ [provResult.value EXCEPT !.id = fresh]
                             = generate_roadmap(provider, args.request,
                                                args.user_id, StopReply(reply),
                                                fresh).res.value

\* the backend stopped at the token limit and a roadmap was returned
C7_Witness ==
    /\ provider = "google"
    /\ op = "generate"
    /\ HasCandidate
    /\ reply.finish_reason = FINISH_MAX_TOKENS
    /\ has_text(reply)
    /\ IsOk(provResult)
    /\ Len(provResult.value.modules) = 6

\* C8: whenever the provider call returned a Roadmap, generate_roadmap and
\* update_roadmap of the service return a success response, whatever step
\* of persistence fails.
C8_PersistenceNeverFailsRequest ==
    (pc = "done" /\ IsOk(provResult)) => IsOk(outcome)

\* update_roadmap was called without existing_roadmap
UpdateWithoutExisting ==
    op = "update" /\ args.update_request.existing_roadmap = NoneV

C10_MissingRoadmapIsValidationError ==
    (UpdateWithoutExisting /\ pc = "done")
        => /\ IsRaised(outcome)
           /\ outcome.exc.type = "ValueError"
           /\ update_route_status(outcome) = 400

\* the operation of the service has ended with an exception
ServiceRaised ==
    op \in {"generate", "update"} /\ pc = "done" /\ IsRaised(outcome)

\* the exception that reached the except clauses of the service, when the
\* provider had returned a roadmap: the failure of pool creation
escaped_exception ==
    IF IsRaised(provResult) THEN provResult.exc
    ELSE IF provResult = NoResult THEN PyExc("ValueError")
    ELSE PyExc("OSError")

C11_WitnessReraised ==
    /\ ServiceRaised
    /\ IsRaised(provResult)
    /\ provResult.exc.type = "AIServiceError"
    /\ provResult.exc.error_code = "PARSE_ERROR"
    /\ outcome.exc = provResult.exc

\* the reference table of resource types, on the lowered and trimmed text
reference_type(x) ==
    IF x.s \in ResourceType THEN x.s
    ELSE IF x.s = "docs" THEN "documentation"
    ELSE IF x.s \in {"blog", "blog post"} THEN "article"
    ELSE IF x.s = "youtube" THEN "video"
    ELSE IF x.s \in {"interactive", "game"} THEN "tutorial"
    ELSE IF x.s \in {"project", "exercise"} THEN "practice"
    ELSE "tutorial"

\* the type text of a resource entry of the reply
entry_type(res_data) == Get(res_data, "type", Plain("article"))

\* a module entry with the type of every resource replaced by its reference
canonical_entry(module_data) ==
    IF "resources" \in DOMAIN module_data
    THEN [module_data EXCEPT !.resources =
             [k \in 1..Len(module_data.resources) |->
                 [type |-> Plain(reference_type(
                               entry_type(module_data.resources[k])))]
                 @@ module_data.resources[k]]]
    ELSE module_data

canonical_data(data) ==
    IF "modules" \in DOMAIN data
    THEN [data EXCEPT !.modules =
             [i \in 1..Len(data.modules) |-> canonical_entry(data.modules[i])]]
    ELSE data

canonical_token(tok) ==
    IF tok.t = "json" THEN JsonDoc(canonical_data(tok.data)) ELSE tok

\* the reply with every resource type already a member of the enum
CanonicalReply(r) ==
    [r EXCEPT !.text = [k \in 1..Len(r.text) |-> canonical_token(r.text[k])]]

\* C12: in every provider the type of a reply's resource is coerced by the
\* reference table (case-insensitive, trimmed; enum members to themselves,
\* synonyms to their target, anything else to tutorial), and a reply that
\* generate_roadmap accepts with its types written as enum members is
\* accepted as it stands: a type text never makes generate_roadmap fail.
C12_ResourceTypeTable ==
    (op = "generate" /\ ProviderReturned /\ ReplyDecoded)
        => /\ \A i \in 1..Len(ReplyModules) :
                  \A k \in 1..Len(Get(ReplyModules[i], "resources", <<>>)) :
                      resource_type(provider,
                                    entry_type(ReplyModules[i].resources[k]))
                          = Ok(reference_type(
                                   entry_type(ReplyModules[i].resources[k])))
           /\ \A fresh \in FreshIds :
                  IsOk(generate_roadmap(provider, args.request, args.user_id,
                                        CanonicalReply(reply), fresh).res)
                      => IsOk(provResult)

\* C12 for the Google provider alone
C12_GoogleTypeTable == provider = "google" => C12_ResourceTypeTable

\* the Google provider returned a roadmap from a reply with the types
\* " YouTube " and "xyz-unknown"
C12_GoogleWitness ==
    /\ provider = "google"
    /\ op = "generate"
    /\ ProviderReturned
    /\ ReplyDecoded
    /\ Len(ReplyModules) = 6
    /\ entry_type(ReplyModules[6].resources[1]) = Str("youtube", TRUE, TRUE)
    /\ IsOk(provResult)
    /\ provResult.value.modules[6].resources[1].type = "video"
    /\ provResult.value.modules[6].resources[2].type = "tutorial"
    /\ provResult.value.modules[6].resources[3].type = "practice"

\* the name the factory looks up: lowered when it comes from the settings
looked_up_name(f) == IF f.via = "settings" THEN Lower(f.name) ELSE f.name

\* the providers the factory knows, whether or not their dependency is there
KnownProviders == {"google", "openai"}

\* C13: the factory fails with UNSUPPORTED_PROVIDER for a name without a
\* registered provider (through create_ai_service and through
\* create_ai_service_from_settings), with PROVIDER_UNAVAILABLE for a known
\* provider whose dependency is missing, with INITIALIZATION_ERROR carrying
\* the cause when the constructor throws, and returns an instance of the
\* registered class otherwise.
C13_FactoryFailureCodes ==
    factory.called
        => IF looked_up_name(factory).cased
              \/ looked_up_name(factory).s \notin KnownProviders
           THEN /\ IsRaised(factory.result)
                /\ factory.result.exc.error_code = "UNSUPPORTED_PROVIDER"
           ELSE IF looked_up_name(factory).s = "openai"
                   /\ ~factory.openai_available
           THEN /\ IsRaised(factory.result)
                /\ factory.result.exc.error_code = "PROVIDER_UNAVAILABLE"
           ELSE IF factory.ctor_raises
           THEN /\ IsRaised(factory.result)
                /\ factory.result.exc.error_code = "INITIALIZATION_ERROR"
                /\ factory.result.exc.original_error.type = "TypeError"
           ELSE factory.result =
                    Ok(IF looked_up_name(factory).s = "google"
                       THEN "GoogleProvider" ELSE "OpenAIProvider")

\* C13 where the code agrees: registered names, and unknown names given
\* to create_ai_service directly or having a configuration rule
C13_FactoryAgreed ==
    (/\ factory.called
     /\ ~(looked_up_name(factory).s = "openai" /\ ~factory.openai_available)
     /\ ~(factory.via = "settings"
          /\ looked_up_name(factory).s \notin ConfigRules))
        => C13_FactoryFailureCodes

\* the constructor threw and the factory reported INITIALIZATION_ERROR
C13_AgreedWitness ==
    /\ factory.called
    /\ factory.ctor_raises
    /\ IsRaised(factory.result)
    /\ factory.result.exc.error_code = "INITIALIZATION_ERROR"

\* update_roadmap of the service has returned a response
UpdateSucceeded == op = "update" /\ pc = "done" /\ IsOk(outcome)

\* C14: on success of update_roadmap(roadmap_id, update_request, user_id)
\* the roadmap of the response has id roadmap_id, user_id user_id and
\* updated_at set, and is the value handed to the persistence write; the
\* write never sees another id; the metadata has update_type "modification"
\* and modification_prompt the first 100 characters of user_prompt.
C14_UpdateStamping ==
    /\ (op = "update" /\ written # NoneV)
           => /\ written.id = args.roadmap_id
              /\ written.user_id = args.user_id
              /\ written.updated_at # NoTime
    /\ UpdateSucceeded
           => /\ outcome.value.roadmap.id = args.roadmap_id
              /\ outcome.value.roadmap.user_id = args.user_id
              /\ outcome.value.roadmap.updated_at # NoTime
              /\ written # NoneV => written = outcome.value.roadmap
              /\ outcome.value.metadata.update_type = "modification"
              /\ outcome.value.metadata.modification_prompt.s
                     = args.update_request.user_prompt.s
              /\ outcome.value.metadata.modification_prompt.len
                     = IF args.update_request.user_prompt.len <= 100
                       THEN args.update_request.user_prompt.len
                       ELSE 100

\* an update with a prompt of 150 characters succeeded and was written; the
\* roadmap_id differs from every id the regeneration can draw
C14_Witness ==
    /\ UpdateSucceeded
    /\ args.roadmap_id \notin FreshIds
    /\ args.update_request.user_prompt.len = 150
    /\ written # NoneV
    /\ written.id = args.roadmap_id
    /\ outcome.value.metadata.modification_prompt.len = 100

\* how often name occurs in the calls of the request in flight
RECURSIVE count_calls(_, _)
count_calls(name, cs) ==
    IF cs = <<>> THEN 0
    ELSE (IF Head(cs) = name THEN 1 ELSE 0) + count_calls(name, Tail(cs))

\* the provider's default update_roadmap has returned or raised
UpdateReturned == op = "update" /\ ProviderReturned

\* the request update_roadmap built is as specified: the goal of the
\* existing roadmap, 1 to 10 distinct skills of its modules or the single
\* skill "general", the prompt and the existing roadmap in the preferences
new_request_as_specified(req, existing, user_prompt) ==
    /\ req.user_goal = existing.career_goal
    /\ Len(req.user_skills) \in 1..10
    /\ \A i, j \in 1..Len(req.user_skills) :
           i # j => req.user_skills[i].skill # req.user_skills[j].skill
    /\ IF all_skills(existing) = {}
       THEN Len(req.user_skills) = 1 /\ req.user_skills[1].skill = "general"
       ELSE \A i \in 1..Len(req.user_skills) :
                req.user_skills[i].skill \in all_skills(existing)
    /\ req.preferences.modifications = user_prompt
    /\ req.preferences.existing_roadmap = existing

\* C15: the default update_roadmap calls generate_roadmap exactly once, with
\* a new request whose goal is existing.career_goal, whose skills are 1 to
\* 10 distinct skills of the existing modules or the one skill "general",
\* and whose preferences hold the prompt and the existing roadmap.
C15_DefaultUpdateRequest ==
    UpdateReturned
        => /\ count_calls("provider.generate_roadmap", calls) = 1
           /\ IsOk(genRequest)
           /\ new_request_as_specified(genRequest.value,
                                       args.update_request.existing_roadmap,
                                       args.update_request.user_prompt)

\* C15 for an existing roadmap whose career_goal is not empty
C15_DefaultUpdateWithGoal ==
    (UpdateReturned
     /\ args.update_request.existing_roadmap.career_goal.s # "")
        => C15_DefaultUpdateRequest

\* an update of a roadmap teaching 12 skills built a request of 10 skills
C15_WitnessTen ==
    /\ UpdateReturned
    /\ Cardinality(all_skills(args.update_request.existing_roadmap)) = 12
    /\ IsOk(genRequest)
    /\ Len(genRequest.value.user_skills) = 10

\* an update of a roadmap teaching no skill built the skill "general"
C15_WitnessGeneral ==
    /\ UpdateReturned
    /\ all_skills(args.update_request.existing_roadmap) = {}
    /\ IsOk(genRequest)
    /\ genRequest.value.user_skills[1].skill = "general"

\* get_roadmap has returned or raised
GetRoadmapEnded == op = "get_roadmap" /\ pc = "done"

\* the status get_roadmap is to report for what the database did
expected_status(configured, ans) ==
    IF ~configured THEN "not_configured"
    ELSE IF ans.fails THEN "error"
    ELSE IF ans.row = NoneV THEN "not_found"
    ELSE "ok"

\* C16: get_roadmap never raises; it returns not_configured without a
\* configured Postgres store or driver, error when a database operation
\* fails (establishing the pool included), not_found when there is no row
\* with the id, ok with the stored projection otherwise.
C16_GetRoadmapStatus ==
    GetRoadmapEnded
        => /\ IsOk(outcome)
           /\ outcome.value.status
                  = expected_status(pool_configured, dbAnswer)
           /\ outcome.value.status = "ok"
                  => /\ outcome.value.roadmap_id = args.roadmap_id
                     /\ outcome.value.user_id = dbAnswer.row.user_id

\* C16 for every read but the one finding the pool cannot be created
C16_GetRoadmapWithPool ==
    (GetRoadmapEnded /\ dbAnswer # Failing("create_pool"))
        => C16_GetRoadmapStatus

\* a read failed at fetchrow and get_roadmap returned the status error
C16_WitnessError ==
    /\ GetRoadmapEnded
    /\ dbAnswer = Failing("conn.fetchrow")
    /\ IsOk(outcome)
    /\ outcome.value.status = "error"

-----------------------------------------------------------------------------
(* Request construction *)

\* a route has parsed a body of the given kind
Parsed(kind) == pc \in {"parsed", "rejected"} /\ received.kind = kind

\* a string that is empty once trimmed
blank(x) == x.s = ""

\* C17: building a RoadmapRequest succeeds exactly when user_goal is non-empty
\* after trimming and user_skills is a non-empty list; building a
\* RoadmapUpdateRequest succeeds exactly when user_prompt is non-empty after
\* trimming; the stored user_goal and user_prompt are the trimmed strings, and
\* trimming them again changes nothing.
C17_RequestConstruction ==
    /\ Parsed("generate") =>
          /\ IsOk(received.model) <=>
                (~blank(received.body.user_goal)
                    /\ Len(received.body.user_skills) > 0)
          /\ IsOk(received.model) =>
                /\ received.model.value.user_goal = Strip(received.body.user_goal)
                /\ Strip(received.model.value.user_goal)
                      = received.model.value.user_goal
    /\ Parsed("update") =>
          /\ IsOk(received.model) <=> received.body.user_prompt.len > 0
          /\ IsOk(received.model) =>
                /\ received.model.value.user_prompt
                      = strip_prompt(received.body.user_prompt)
                /\ strip_prompt(received.model.value.user_prompt)
                      = received.model.value.user_prompt

\* C17, the part the code keeps: the goal and the prompt decide the
\* construction, and what is stored is trimmed.
C17_GoalAndPrompt ==
    /\ Parsed("generate") =>
          /\ IsOk(received.model) <=> ~blank(received.body.user_goal)
          /\ IsOk(received.model) =>
                /\ received.model.value.user_goal = Strip(received.body.user_goal)
                /\ ~received.model.value.user_goal.pad
    /\ Parsed("update") =>
          /\ IsOk(received.model) <=> received.body.user_prompt.len > 0
          /\ IsOk(received.model) =>
                /\ received.model.value.user_prompt
                      = strip_prompt(received.body.user_prompt)
                /\ ~received.model.value.user_prompt.pad

\* a RoadmapRequest was built from a body whose user_skills is the empty list
C17_WitnessEmptySkills ==
    /\ Parsed("generate")
    /\ IsOk(received.model)
    /\ Len(received.body.user_skills) = 0
    /\ received.body.user_goal.pad

-----------------------------------------------------------------------------
(* The shared precondition check *)

\* the requests a caller can hand to a provider: fields of a built request
\* can be assigned without validation, so every shape is possible
ValidateInputs ==
    {[user_goal |-> g, user_skills |-> sk, experience_level |-> "beginner",
      preferences |-> NoneV] :
        g \in {Plain(""), Str("", FALSE, TRUE), Plain("data scientist")},
        sk \in {<<>>,
                <<SkillAssessment("python", 0, "beginner")>>,
                <<SkillAssessment("python", 1, "beginner"),
                  SkillAssessment("sql", 10, "advanced")>>,
                <<SkillAssessment("python", 5, "beginner"),
                  SkillAssessment("sql", 11, "advanced")>>}}

\* goal non-empty, skills non-empty, every score in [1,10]
valid_as_specified(request) ==
    /\ ~(request.user_goal.s = "" /\ ~request.user_goal.pad)
    /\ Len(request.user_skills) > 0
    /\ \A i \in 1..Len(request.user_skills) :
          request.user_skills[i].score \in 1..10

\* a provider's generate_roadmap has returned or raised for a request
GenerateRan == ProviderReturned /\ IsOk(genRequest)

\* C18: validate_request returns True exactly when the goal is non-empty, the
\* skills are non-empty and every score is in [1,10], and raises ValueError
\* otherwise; in every provider's generate_roadmap it runs first, so a request
\* failing it leads to no call of the remote model, and the request is left as
\* it was.
C18_ValidateBeforeModelCall ==
    /\ \A request \in ValidateInputs :
          validate_request(request)
             = IF valid_as_specified(request)
               THEN Ok(TRUE) ELSE Raise(PyExc("ValueError"))
    /\ GenerateRan =>
          /\ provSteps[1] = "validate_request"
          /\ valid_as_specified(genRequest.value)
                <=> \E k \in 1..Len(provSteps) : provSteps[k] = "model_call"
          /\ ~valid_as_specified(genRequest.value) =>
                /\ IsRaised(provResult)
                /\ count_calls("model_call", calls) = 0
                /\ reply = NoReply
          /\ op = "generate" => genRequest.value = args.request

\* a request with no skills went through a provider's generate_roadmap
C18_Witness ==
    /\ GenerateRan
    /\ op = "generate"
    /\ Len(genRequest.value.user_skills) = 0
    /\ provSteps = <<"validate_request">>

-----------------------------------------------------------------------------
(* The roadmap a provider returns *)

\* a provider's generate_roadmap returned a roadmap to generate_roadmap of
\* the service
GenerateReturned == op = "generate" /\ ProviderReturned /\ IsOk(provResult)

\* the fields a provider sets from its arguments and from constants
stamped_from_arguments(rm) ==
    /\ rm.user_id = args.user_id
    /\ rm.career_goal = args.request.user_goal
    /\ rm.career_goal = Strip(rm.career_goal)
    /\ rm.id \in FreshIds
    /\ rm.current_module = 0
    /\ rm.progress_percentage = 0

\* C19: for each provider, the Roadmap returned by generate_roadmap has the
\* user_id of the call, the request's trimmed user_goal as career_goal, a
\* freshly generated id, current_module 0, progress_percentage 0, and both
\* created_at and updated_at set.
C19_GeneratedRoadmapStamps ==
    GenerateReturned =>
        /\ stamped_from_arguments(provResult.value)
        /\ provResult.value.created_at # NoTime
        /\ provResult.value.updated_at # NoTime

\* C19, the part the code keeps: all of it for Google, all but updated_at for
\* OpenAI.
C19_StampsButUpdatedAt ==
    GenerateReturned =>
        /\ stamped_from_arguments(provResult.value)
        /\ provResult.value.created_at # NoTime
        /\ provider = "google" => provResult.value.updated_at # NoTime

\* the OpenAI provider returned a roadmap whose updated_at is None
C19_WitnessOpenAI ==
    /\ GenerateReturned
    /\ provider = "openai"
    /\ provResult.value.updated_at = NoTime
    /\ provResult.value.created_at # NoTime

-----------------------------------------------------------------------------
(* Health checks *)

\* a provider's health_check has answered
HealthChecked == op = "readiness" /\ health # NoneV

\* C20: health_check never throws: for every provider and every outcome of
\* the probe call it returns a status object with status, provider, model
\* and api_accessible; status is healthy and api_accessible true exactly when
\* the probe returned, and status is unhealthy, api_accessible false and an
\* error text is there when it raised.
C20_HealthCheckNeverThrows ==
    HealthChecked =>
        /\ {"status", "provider", "model", "api_accessible"}
              \subseteq DOMAIN health.ai_health
        /\ health.ai_health.provider = provider
        /\ health.ai_health.model = model_of(provider)
        /\ health.ai_health.status \in {"healthy", "unhealthy"}
        /\ health.ai_health.status = "healthy" <=> ~health.probe.raises
        /\ health.ai_health.api_accessible <=> ~health.probe.raises
        /\ health.probe.raises =>
              /\ "error" \in DOMAIN health.ai_health
              /\ health.ai_health.error = str(health.probe.exc)

\* the probe of the OpenAI provider raised and a status object came back
C20_Witness ==
    /\ HealthChecked
    /\ provider = "openai"
    /\ health.probe.raises
    /\ health.ai_health.status = "unhealthy"
    /\ IsRaised(outcome)

-----------------------------------------------------------------------------
(* The connection pool under concurrent requests *)

\* the requests that hold a pool they got from _get_db_pool
holders == {t \in TaskIds : tasks[t].pc \in {"have", "done"} /\ tasks[t].got # NoneV}

\* C21: over any interleaving of concurrent generate_roadmap, update_roadmap
\* and get_roadmap requests on one RoadmapService, asyncpg.create_pool is
\* executed at most once, and every caller obtains that same pool.
C21_PoolCreatedAtMostOnce ==
    /\ pools <= 1
    /\ \A t \in holders, u \in holders : tasks[t].got = tasks[u].got

\* C21, what the code keeps: a caller that finds self._db_pool set gets it
\* without creating one, and the pool in self._db_pool is the last one created.
C21_PoolReusedOnceSet ==
    /\ db_pool # NoneV => db_pool = Pool(pools)
    /\ db_pool = NoneV => pools = 0
    /\ \A t \in holders : tasks[t].got.id <= pools

\* two requests hold two different pools
C21_WitnessTwoPools ==
    /\ pools = 2
    /\ \E t \in holders, u \in holders :
          /\ tasks[t].got # tasks[u].got
          /\ tasks[t].op # tasks[u].op

-----------------------------------------------------------------------------
(* One request, one model call *)

\* generate_roadmap or update_roadmap of the service is past its provider call
PastProvider == op \in {"generate", "update"} /\ ProviderReturned

\* C22: one inbound generate_roadmap or update_roadmap makes at most one model
\* call and at most one persistence write; a call that reaches the provider
\* with a valid request invokes the model exactly once; when the invocation
\* or the parsing of its reply fails, that first failure is what the caller
\* gets, with no second model call.
C22_SingleModelCall ==
    /\ op \in {"generate", "update"} =>
          /\ count_calls("model_call", calls) <= 1
          /\ count_calls("provider.generate_roadmap", calls) <= 1
          /\ count_calls("conn.execute", calls) <= 1
          /\ written # NoneV => count_calls("conn.execute", calls) = 1
    /\ (PastProvider /\ IsOk(genRequest)) =>
          (valid_as_specified(genRequest.value)
              <=> count_calls("model_call", calls) = 1)
    /\ (PastProvider /\ IsRaised(provResult)) =>
          /\ pc = "done"
          /\ outcome = Raise(service_except(provider, provResult.exc))
          /\ count_calls("model_call", calls) <= 1
          /\ count_calls("conn.execute", calls) = 0

\* the model was invoked once, its reply could not be parsed, and the request
\* ended with that failure
C22_Witness ==
    /\ PastProvider
    /\ IsRaised(provResult)
    /\ provSteps[Len(provSteps)] = "json_loads"
    /\ count_calls("model_call", calls) = 1
    /\ IsRaised(outcome)

-----------------------------------------------------------------------------
(* Normalization of module entries *)

\* a provider returned a roadmap built from the decoded reply
BuiltFromReply ==
    /\ op \in {"generate", "update"}
    /\ ProviderReturned
    /\ IsOk(provResult)
    /\ ReplyDecoded

Placeholder == Literal("Complete module exercises")

\* the assessment text of a module entry is missing, empty or the placeholder
generic_assessment(module_data) ==
    Get(module_data, "assessment", NoAssessment) \in {NoAssessment, Placeholder}

\* the sentence the specification asks for: about the project when the
\* module has one, otherwise about the first two skills taught
specified_assessment(module_data, module) ==
    IF module.project # NoneV
    THEN [kind |-> "complete_project", title |-> Lower(module.project.title),
          skills |-> Take(Get(module_data, "skills_taught", <<>>), 2)]
    ELSE [kind |-> "demonstrate_skills",
          skills |-> Take(Get(module_data, "skills_taught", <<>>), 2)]

assessments_synthesized ==
    \A i \in 1..Len(provResult.value.modules) :
        /\ provResult.value.modules[i].assessment # Placeholder
        /\ generic_assessment(ReplyModules[i]) =>
              provResult.value.modules[i].assessment
                 = specified_assessment(ReplyModules[i],
                                        provResult.value.modules[i])

\* C23: for each provider, no module of a returned Roadmap has the literal
\* assessment "Complete module exercises": a missing, empty or placeholder
\* assessment is replaced by a sentence that mentions the project's title
\* when the module has a project, and otherwise the first two skills taught.
C23_AssessmentSynthesized == BuiltFromReply => assessments_synthesized

\* C23 for the Google provider alone
C23_GoogleAssessment ==
    (BuiltFromReply /\ provider = "google") => assessments_synthesized

\* the OpenAI provider returned a module with the placeholder as assessment
C23_WitnessOpenAI ==
    /\ BuiltFromReply
    /\ provider = "openai"
    /\ "assessment" \notin DOMAIN ReplyModules[1]
    /\ provResult.value.modules[1].assessment = Placeholder

\* the Google provider replaced the placeholder of a module with a project
C23_WitnessGoogle ==
    /\ BuiltFromReply
    /\ provider = "google"
    /\ Get(ReplyModules[6], "assessment", NoAssessment) = Placeholder
    /\ provResult.value.modules[6].assessment
          = [kind |-> "complete_project",
             title |-> Plain("Build a CLI"),
             skills |-> <<"python", "testing">>]

\* the deliverables of the project entry a provider reads from a module
\* entry: the first of "projects" for Google, "project" for OpenAI
entry_deliverables(prov, module_data) ==
    IF prov = "google"
    THEN Get(module_data.projects[1], "deliverables",
             ListOf(<<Plain("Project completion")>>))
    ELSE Get(module_data.project, "deliverables",
             ListOf(<<Plain("Project completion")>>))

has_project_entry(prov, module_data) ==
    IF prov = "google"
    THEN Len(Get(module_data, "projects", <<>>)) > 0
    ELSE "project" \in DOMAIN module_data

\* the deliverables the specification asks for
specified_deliverables(d) == IF d.isList THEN d.items ELSE <<d.str>>

\* a reply the provider accepts once its string deliverables are written as
\* one-element lists
listed_entry(module_data) ==
    [k \in DOMAIN module_data |->
        IF k = "project"
        THEN [module_data[k] EXCEPT
                 !.deliverables = ListOf(specified_deliverables(@))]
        ELSE IF k = "projects"
        THEN [j \in 1..Len(module_data[k]) |->
                 [module_data[k][j] EXCEPT
                     !.deliverables = ListOf(specified_deliverables(@))]]
        ELSE module_data[k]]

\* the provider's module loop on the decoded reply, and on the same reply
\* with the deliverables written as lists
built_modules(prov, ms) ==
    IF prov = "google" THEN Google_modules(ms) ELSE OpenAI_modules(ms)

\* the reply was decoded and the provider went through its module entries
ModulesNormalized ==
    /\ op \in {"generate", "update"}
    /\ ProviderReturned
    /\ ReplyDecoded

\* C24: for each provider, deliverables given as a single string are wrapped
\* into a one-element list and do not make generation fail; a list of
\* deliverables is passed through unchanged, in order.
C24_DeliverablesWrapped ==
    ModulesNormalized =>
        /\ IsOk(built_modules(provider,
                    [i \in 1..Len(ReplyModules) |-> listed_entry(ReplyModules[i])]))
              => IsOk(built_modules(provider, ReplyModules))
        /\ IsOk(built_modules(provider, ReplyModules)) =>
              \A i \in 1..Len(ReplyModules) :
                  has_project_entry(provider, ReplyModules[i]) =>
                      built_modules(provider, ReplyModules).value[i]
                              .project.deliverables
                          = specified_deliverables(
                                entry_deliverables(provider, ReplyModules[i]))

\* C24 for the Google provider alone
C24_GoogleDeliverables == provider = "google" => C24_DeliverablesWrapped

\* the OpenAI provider refused a reply because of a string as deliverables
C24_WitnessOpenAI ==
    /\ ModulesNormalized
    /\ provider = "openai"
    /\ Len(ReplyModules) = 6
    /\ has_project_entry(provider, ReplyModules[6])
    /\ ~ReplyModules[6].project.deliverables.isList
    /\ IsRaised(provResult)
    /\ IsOk(built_modules(provider,
                [i \in 1..6 |-> listed_entry(ReplyModules[i])]))

\* the Google provider wrapped a string, and OpenAI passed a list through
C24_WitnessWrapped ==
    /\ ModulesNormalized
    /\ IsOk(provResult)
    /\ Len(ReplyModules) = 6
    /\ has_project_entry(provider, ReplyModules[6])
    /\ provider = "google" => ~ReplyModules[6].projects[1].deliverables.isList
    /\ provResult.value.modules[6].project.deliverables = <<Plain("a tool")>>

-----------------------------------------------------------------------------
(* Tolerant defaulting *)

\* a module entry with two or more resource entries and nothing else
bare_entry(module_data) ==
    /\ DOMAIN module_data = {"resources"}
    /\ Len(module_data.resources) >= 2
    /\ \A k \in 1..Len(module_data.resources) :
          DOMAIN module_data.resources[k] = {}

\* the decoded reply has six bare module entries and no other field
BareReply ==
    /\ ReplyDecoded
    /\ DOMAIN reply_parse(provider, reply).value = {"modules"}
    /\ Len(ReplyModules) = 6
    /\ \A i \in 1..6 : bare_entry(ReplyModules[i])

\* C25: for each provider, a parsed reply with exactly 6 module entries, each
\* with at least 2 resource entries, and every other field missing becomes a
\* valid Roadmap: every module has estimated_hours 30, estimated_weeks is 16,
\* difficulty_progression is the fixed default, and a project entry without
\* hours gets estimated_hours 10.
C25_DefaultsAreTotal ==
    /\ (op \in {"generate", "update"} /\ ProviderReturned /\ BareReply) =>
          /\ IsOk(provResult)
          /\ \A i \in 1..6 :
                /\ provResult.value.modules[i].estimated_hours = 30
                /\ provResult.value.modules[i].project = NoneV
                /\ Len(provResult.value.modules[i].resources) >= 2
          /\ provResult.value.estimated_weeks = 16
          /\ provResult.value.difficulty_progression
                = "beginner -> intermediate -> advanced"
    /\ BuiltFromReply =>
          \A i \in 1..6 :
              (/\ has_project_entry(provider, ReplyModules[i])
               /\ provResult.value.modules[i].project # NoneV)
                 => provResult.value.modules[i].project.estimated_hours = 10

\* a provider built a roadmap from six bare module entries
C25_Witness ==
    /\ op = "generate"
    /\ ProviderReturned
    /\ BareReply
    /\ IsOk(provResult)
    /\ provider = "openai"
    /\ provResult.value.modules[3].resources[2].type = "article"

\* a project entry without hours got the default
C25_WitnessProject ==
    /\ BuiltFromReply
    /\ has_project_entry(provider, ReplyModules[6])
    /\ provResult.value.modules[6].project.estimated_hours = 10

-----------------------------------------------------------------------------
(* The prompt sent to the model *)

\* a provider's generate_roadmap invoked the remote model
ModelInvoked ==
    /\ op \in {"generate", "update"}
    /\ ProviderReturned
    /\ IsOk(genRequest)
    /\ count_calls("model_call", calls) = 1

\* the task prompt of the model call of this request
sent_prompt == build_roadmap_prompt(provider, genRequest.value)

\* the request update_roadmap would have built for another user_prompt
with_modifications(request, user_prompt) ==
    [request EXCEPT !.preferences.modifications = user_prompt]

\* C26: for each provider, the prompt the regeneration call of update_roadmap
\* sends to the model depends on user_prompt: an update of the same roadmap
\* with another user_prompt sends another prompt.
C26_PromptDependsOnUserPrompt ==
    (ModelInvoked /\ op = "update") =>
        \A p \in UserPrompts \ {args.update_request.user_prompt} :
            build_roadmap_prompt(provider,
                                 with_modifications(genRequest.value, p))
               # sent_prompt

\* C26 for the OpenAI provider alone
C26_OpenAIPrompt == provider = "openai" => C26_PromptDependsOnUserPrompt

\* the Google provider sent the prompt it sends for any other user_prompt
C26_WitnessGoogle ==
    /\ ModelInvoked
    /\ op = "update"
    /\ provider = "google"
    /\ genRequest.value.preferences.modifications
          = Prompt("Add more Python modules", 23)
    /\ build_roadmap_prompt(provider,
                            with_modifications(genRequest.value,
                                               Prompt("long", 150)))
          = sent_prompt

\* the lines of skills the specification asks for: the top skills by score,
\* highest first
specified_summary(user_skills) ==
    [k \in 1..Len(top_skills(user_skills)) |->
        [skill |-> top_skills(user_skills)[k].skill,
         score |-> top_skills(user_skills)[k].score]]

\* the skills and scores of the lines of a prompt's summary
summary_lines(prompt) ==
    [k \in 1..Len(prompt.skills_summary) |->
        [skill |-> prompt.skills_summary[k].skill,
         score |-> prompt.skills_summary[k].score]]

\* C27: the task prompt of each provider carries the request's goal, its
\* experience level and a skills summary that lists the top skills in
\* descending score order; two requests with the same goal and level and
\* different top-scoring skills get different prompts.
C27_PromptCarriesTopSkills ==
    ModelInvoked =>
        /\ sent_prompt.user_goal = genRequest.value.user_goal
        /\ sent_prompt.experience_level = genRequest.value.experience_level
        /\ "skills_summary" \in DOMAIN sent_prompt
        /\ summary_lines(sent_prompt)
              = specified_summary(genRequest.value.user_skills)
        /\ \A other \in Requests :
              (/\ other.user_goal = genRequest.value.user_goal
               /\ other.experience_level = genRequest.value.experience_level
               /\ specified_summary(other.user_skills)
                     # specified_summary(genRequest.value.user_skills))
                 => build_roadmap_prompt(provider, other) # sent_prompt

\* C27, what the code keeps: goal and level are in both prompts, and the
\* OpenAI prompt lists every skill of the request in the request's order.
C27_PromptCarriesGoalAndLevel ==
    ModelInvoked =>
        /\ sent_prompt.user_goal = genRequest.value.user_goal
        /\ sent_prompt.experience_level = genRequest.value.experience_level
        /\ provider = "openai" =>
              /\ Len(sent_prompt.skills_summary)
                    = Len(genRequest.value.user_skills)
              /\ \A k \in 1..Len(genRequest.value.user_skills) :
                    sent_prompt.skills_summary[k].skill
                       = genRequest.value.user_skills[k].skill

\* the Google prompt has no skills in it
C27_WitnessGoogle ==
    /\ ModelInvoked
    /\ op = "generate"
    /\ provider = "google"
    /\ Len(genRequest.value.user_skills) = 2
    /\ "skills_summary" \notin DOMAIN sent_prompt

\* the OpenAI prompt lists the skills lowest score first, and ten of them
C27_WitnessOpenAI ==
    /\ ModelInvoked
    /\ provider = "openai"
    /\ \/ /\ Len(sent_prompt.skills_summary) = 2
          /\ sent_prompt.skills_summary[1].score
                < sent_prompt.skills_summary[2].score
       \/ Len(sent_prompt.skills_summary) > TopSkillsLimit

-----------------------------------------------------------------------------
(* The error codes *)

DocumentedCodes ==
    {"UNSUPPORTED_PROVIDER", "PROVIDER_UNAVAILABLE", "INITIALIZATION_ERROR",
     "SAFETY_FILTER", "SAFETY_BLOCKED", "MAX_TOKENS_EXCEEDED", "NO_CONTENT",
     "PARSE_ERROR", "TRUNCATED_RESPONSE", "GENERATION_ERROR",
     "UNEXPECTED_ERROR"}

\* an AIServiceError with a provider name and a documented code
documented(e) ==
    e.type = "AIServiceError"
        => /\ e.provider \notin {"", "none"}
           /\ e.error_code \in DocumentedCodes

\* C28: every AIServiceError raised by the factory (create_ai_service and
\* create_ai_service_from_settings), by a provider or by the service carries
\* a non-empty provider name and one of the documented error codes.
C28_DocumentedErrorCodes ==
    /\ (factory.called /\ IsRaised(factory.result))
          => documented(factory.result.exc)
    /\ IsRaised(provResult) => documented(provResult.exc)
    /\ IsRaised(outcome) => documented(outcome.exc)

\* C28, what the code keeps: the errors of the providers and of the service,
\* and those of the factory for a name that is not empty and has a
\* configuration rule or is given to create_ai_service directly.
C28_ProviderAndServiceErrors ==
    /\ (/\ factory.called
        /\ IsRaised(factory.result)
        /\ factory.name.s # ""
        /\ (factory.via = "direct" \/ factory.name.s \in ConfigRules))
          => documented(factory.result.exc)
    /\ IsRaised(provResult) => documented(provResult.exc)
    /\ IsRaised(outcome) => documented(outcome.exc)

\* create_ai_service_from_settings raised a code that is not documented
C28_WitnessUnknownProvider ==
    /\ factory.called
    /\ factory.via = "settings"
    /\ factory.name = Plain("foo")
    /\ IsRaised(factory.result)
    /\ factory.result.exc.error_code = "UNKNOWN_PROVIDER"

\* the factory raised an error whose provider name is empty
C28_WitnessNoName ==
    /\ factory.called
    /\ IsRaised(factory.result)
    /\ factory.result.exc.provider = ""

-----------------------------------------------------------------------------
(* Persistence follows the provider *)

\* the calls of _save_roadmap_to_db
SaveCalls == {"create_pool", "pool.acquire", "conn.execute"}

\* the position of the first call of the given names, 0 when there is none
RECURSIVE first_call(_, _, _)
first_call(names, cs, i) ==
    IF i > Len(cs) THEN 0
    ELSE IF cs[i] \in names THEN i
    ELSE first_call(names, cs, i + 1)

\* generate_roadmap or update_roadmap ended with a failure of the provider
\* call or before it
FailedBeforeSave ==
    /\ op \in {"generate", "update"}
    /\ pc = "done"
    /\ ~IsOk(provResult)

\* C29: in generate_roadmap and update_roadmap a persistence write only
\* follows a successful provider call: when the provider call fails no pool
\* is created and no save is attempted, the save comes after get_model_info,
\* and what is written is the validated Roadmap the provider returned.
C29_SaveOnlyAfterProvider ==
    op \in {"generate", "update"} =>
        /\ ~IsOk(provResult) =>
              /\ first_call(SaveCalls, calls, 1) = 0
              /\ written = NoneV
              /\ pc \notin {"model_info", "save", "respond"}
        /\ first_call(SaveCalls, calls, 1) > 0 =>
              /\ IsOk(provResult)
              /\ first_call({"get_model_info"}, calls, 1) > 0
              /\ first_call({"get_model_info"}, calls, 1)
                    < first_call(SaveCalls, calls, 1)
        /\ written # NoneV =>
              /\ IsOk(provResult)
              /\ written = provResult.value
              /\ validate_modules(written.modules)
              /\ \A i \in 1..Len(written.modules) :
                    validate_resources(written.modules[i].resources)

\* a request whose provider call failed ended with the database configured
\* and no pool created
C29_Witness ==
    /\ FailedBeforeSave
    /\ IsRaised(provResult)
    /\ pool_configured
    /\ db_pool = NoneV
    /\ count_calls("model_call", calls) = 1

-----------------------------------------------------------------------------
(* The global service of the tool server *)

\* the tool calls that have a service to work with
served == {t \in TaskIds : tasks[t].pc \in {"run", "done"}}

\* C30: over any interleaving of concurrent generate_roadmap and
\* update_roadmap tool calls arriving while the global is unset, at most one
\* RoadmapService (with its provider) is constructed, and every call works
\* with that instance.
C30_SingleService ==
    /\ services <= 1
    /\ roadmap_service # NoneV <=> services = 1
    /\ \A t \in served :
          /\ tasks[t].got # NoneV
          /\ tasks[t].got = roadmap_service

\* a second tool call found the service while the first was still awaiting
\* get_model_info
C30_Witness ==
    /\ services = 1
    /\ \E t \in TaskIds, u \in TaskIds :
          /\ tasks[t].pc = "get_model_info"
          /\ tasks[u].pc \in {"run", "done"}
          /\ tasks[u].got = roadmap_service
          /\ tasks[u].op # tasks[t].op

====
